---------------------------- MODULE Spec2Model ----------------------------
(***************************************************************************)
(* Record reconciliation, derivation and persistence of the introductions  *)
(* tracker: the duplicate matchers, the fill-blank merge, the derivation   *)
(* cascade of the comps cleaners and the retrying temp-file write gateway  *)
(* of email_pipeline/excel_writer.py, with the database store of           *)
(* email_pipeline/occ_comps_db.py and the batch scan of find_inv_dupes.py. *)
(*                                                                         *)
(* Text is a TLA+ string (TLC evaluates Len, SubSeq and \o on strings).    *)
(* A cell, a dataclass field or a database column holds a value            *)
(*   [k |-> "none" | "num" | "str", n |-> Int, s |-> STRING].              *)
(* Money, area and term numbers are counted in hundredths; yields are      *)
(* counted in ten-thousandths, so 6.5 (percent) is 65000 and the decimal   *)
(* 0.065 is 650.                                                           *)
(***************************************************************************)
EXTENDS Integers, Sequences, FiniteSets, TLC

VARIABLES
    fn,         \* pure-function harness: which function is exercised
    inp,        \* its inputs
    out         \* its outputs (stage "in" until it has run)

fvars == <<fn, inp, out>>

VARIABLES
    file,       \* the live file of the run: "occ", "inv" or "view" (the export)
    live,       \* the rows of the live file
    before,     \* the rows of the live file when the call started
    pc,         \* "idle", "write", "save", "copy", "verify", "clean", "done"
    op,         \* the call: "occ_append", "inv_append", "export"
    comps,      \* its argument
    workbook,   \* the workbook in memory after the mutator ran on it
    written,    \* written_comps / count[0] of append_comps, as a sequence
    attempt,    \* loop variable of _retry_write
    waits,      \* the sleeps of _retry_write, in seconds
    rw,         \* what _retry_write returned: "none" yet, "true", "false"
                \* ("raised": an exception left it)
    last,       \* the last attempt of _retry_write
    tmp,        \* the temp file of the attempt of _retry_write
    fsops,      \* every write to the live path: how, and where its temp file was
    vattempt,   \* loop variable of _verify_and_resave
    vlog,       \* what each verification attempt saw and did
    cattempt,   \* loop variable of clean_investment_comps
    clog,       \* the exception of each failed attempt of clean_investment_comps
    restores,   \* how often the sync client has put the old file back
    extw,       \* how many outside writes landed between an open and its copy
    ret,        \* the return value of the call (-1: none yet)
    exc         \* the exception that left the call ("none")

gvars == <<file, live, before, pc, op, comps, workbook, written, attempt, waits, rw, last,
           tmp, fsops, vattempt, vlog, cattempt, clog, restores, extw, ret, exc>>

vars == <<fn, inp, out, gvars>>

\* no attempt of _retry_write yet
NoAttempt == [kind |-> "none", changes_made |-> FALSE, copied |-> FALSE]

\* no workbook loaded yet
NoTmp == [exists |-> FALSE, ws |-> <<>>]

NoWorkbook == [ws |-> <<>>, changes_made |-> FALSE, raised |-> FALSE]

\* the gateway at rest, in the runs that exercise a pure function
GatewayOff ==
    /\ file = "none" /\ live = <<>> /\ before = <<>> /\ pc = "off" /\ op = "none"
    /\ comps = <<>> /\ workbook = NoWorkbook /\ written = <<>> /\ attempt = 0 /\ waits = <<>>
    /\ rw = "none" /\ last = NoAttempt /\ fsops = <<>> /\ vattempt = 0 /\ vlog = <<>>
    /\ cattempt = 0 /\ clog = <<>> /\ restores = 0 /\ extw = 0 /\ ret = -1 /\ exc = "none"
    /\ tmp = NoTmp

---------------------------------------------------------------------------
(* Values                                                                  *)

None == [k |-> "none", n |-> 0, s |-> ""]
Num(x) == [k |-> "num", n |-> x, s |-> ""]
Str(t) == [k |-> "str", n |-> 0, s |-> t]

IsNone(v) == v.k = "none"
IsNum(v) == v.k = "num"
IsStr(v) == v.k = "str"

\* a datetime, as openpyxl reads a date cell
Date(y, mo, d) == [k |-> "date", n |-> y * 10000 + mo * 100 + d, s |-> ""]
IsDate(v) == v.k = "date"

---------------------------------------------------------------------------
(* Text helpers: Python's str methods and the regular expressions used by  *)
(* the normalisers, on strings.                                            *)

Ch(t, i) == SubSeq(t, i, i)

\* the slice t[a-1:b] of Python (1-based, inclusive, cut at the end of t)
Mid(t, a, b) ==
    IF a > Len(t) \/ b < a THEN "" ELSE SubSeq(t, a, IF b > Len(t) THEN Len(t) ELSE b)

UpperAlpha == "ABCDEFGHIJKLMNOPQRSTUVWXYZ"
LowerAlpha == "abcdefghijklmnopqrstuvwxyz"
Digits == "0123456789"

InText(c, t) == \E i \in 1..Len(t) : Ch(t, i) = c

\* str.lower() of one character
LowerCh(c) ==
    IF InText(c, UpperAlpha)
    THEN Ch(LowerAlpha, CHOOSE i \in 1..Len(UpperAlpha) : Ch(UpperAlpha, i) = c)
    ELSE c

\* str.upper() of one character
UpperCh(c) ==
    IF InText(c, LowerAlpha)
    THEN Ch(UpperAlpha, CHOOSE i \in 1..Len(LowerAlpha) : Ch(LowerAlpha, i) = c)
    ELSE c

\* \w of the re module: a letter, a digit or the underscore
IsWordCh(c) == InText(c, LowerAlpha) \/ InText(c, UpperAlpha) \/ InText(c, Digits) \/ c = "_"

\* \s of the re module (the whitespace the inputs carry)
IsSpaceCh(c) == c = " "

RECURSIVE Lower(_)
Lower(t) == IF t = "" THEN "" ELSE LowerCh(Head(t)) \o Lower(Tail(t))

RECURSIVE Upper(_)
Upper(t) == IF t = "" THEN "" ELSE UpperCh(Head(t)) \o Upper(Tail(t))

\* str.strip()
RECURSIVE LStrip(_)
LStrip(t) == IF t # "" /\ IsSpaceCh(Head(t)) THEN LStrip(Tail(t)) ELSE t

RECURSIVE RStrip(_)
RStrip(t) ==
    IF t # "" /\ IsSpaceCh(Ch(t, Len(t))) THEN RStrip(SubSeq(t, 1, Len(t) - 1)) ELSE t

Strip(t) == RStrip(LStrip(t))

\* re.sub(r"[^\w\s]", " ", t)
RECURSIVE PunctToSpace(_)
PunctToSpace(t) ==
    IF t = "" THEN ""
    ELSE (IF IsWordCh(Head(t)) \/ IsSpaceCh(Head(t)) THEN Head(t) ELSE " ")
         \o PunctToSpace(Tail(t))

\* str.split(): the maximal runs of non-whitespace, in order
RECURSIVE SplitFrom(_, _)
SplitFrom(t, cur) ==
    IF t = "" THEN (IF cur = "" THEN <<>> ELSE <<cur>>)
    ELSE IF IsSpaceCh(Head(t))
         THEN (IF cur = "" THEN <<>> ELSE <<cur>>) \o SplitFrom(Tail(t), "")
         ELSE SplitFrom(Tail(t), cur \o Head(t))

Split(t) == SplitFrom(t, "")

\* " ".join(words)
RECURSIVE Join(_)
Join(ws) ==
    IF ws = <<>> THEN ""
    ELSE IF Len(ws) = 1 THEN ws[1]
    ELSE ws[1] \o " " \o Join(Tail(ws))

\* a in b, for strings
Contains(b, a) == \E i \in 0..(Len(b) - Len(a)) : SubSeq(b, i + 1, i + Len(a)) = a

RECURSIVE SelectWords(_, _)
SelectWords(ws, drop) ==
    IF ws = <<>> THEN <<>>
    ELSE (IF Head(ws) \in drop THEN <<>> ELSE <<Head(ws)>>) \o SelectWords(Tail(ws), drop)

---------------------------------------------------------------------------
(* Normalisers                                                             *)

\* excel_writer._normalize_name: lowercase, punctuation to spaces, collapse
_normalize_name(name) == Join(Split(PunctToSpace(Strip(Lower(name)))))

\* excel_writer._STOP_WORDS
_STOP_WORDS ==
    {"the", "a", "an", "and", "of", "at", "in", "on", "for",
     "site", "park", "estate", "industrial", "trading", "business",
     "investment", "fund", "intro", "introduction", "portfolio",
     "centre", "center", "works", "unit", "units", "road", "street",
     "lane", "way", "drive", "close", "ltd", "limited", "plc",
     "son", "sons",
     "rd", "st", "ave", "ct", "pl", "sq",
     "north", "south", "east", "west"}

\* excel_writer._significant_words: the non-stop words longer than one character
_significant_words(name) ==
    LET ws == Split(_normalize_name(name))
    IN {ws[i] : i \in {j \in 1..Len(ws) : ws[j] \notin _STOP_WORDS /\ Len(ws[j]) > 1}}

CompanySuffixes == {"ltd", "limited", "plc", "inc", "llp", "llc"}

\* OccupationalCompsWriter._normalise_tenant: the normalised name without the
\* words ltd, limited, plc, inc, llp, llc
_normalise_tenant(name) == Join(SelectWords(Split(_normalize_name(name)), CompanySuffixes))

\* occ_comps_db._normalize_name
Db_normalize_name(name) == Join(Split(PunctToSpace(Strip(Lower(name)))))

\* occ_comps_db.normalise_tenant (the database's port of the same function)
normalise_tenant(name) == Join(SelectWords(Split(Db_normalize_name(name)), CompanySuffixes))

\* re.sub(r'\b0+(\d)', r'\1', w) on one word: leading zeros go while a digit follows
RECURSIVE StripLeadingZeros(_)
StripLeadingZeros(w) ==
    IF Len(w) >= 2 /\ Head(w) = "0" /\ InText(Ch(w, 2), Digits)
    THEN StripLeadingZeros(Tail(w))
    ELSE w

RECURSIVE MapZeros(_)
MapZeros(ws) ==
    IF ws = <<>> THEN <<>> ELSE <<StripLeadingZeros(Head(ws))>> \o MapZeros(Tail(ws))

\* OccupationalCompsWriter._normalise_unit: leading zeros, then the words unit, plot
_normalise_unit(name) ==
    Join(SelectWords(MapZeros(Split(_normalize_name(name))), {"unit", "plot"}))

\* occ_comps_db.normalise_unit
normalise_unit(name) ==
    Join(SelectWords(MapZeros(Split(Db_normalize_name(name))), {"unit", "plot"}))

---------------------------------------------------------------------------
(* difflib.SequenceMatcher(None, a, b).ratio(): Ratcliff/Obershelp.  The   *)
(* longest block that starts earliest in a, then earliest in b, then the   *)
(* same to its left and to its right; ratio = 2 * matches / total length.  *)

RECURSIVE CommonLen(_, _, _, _, _, _)
CommonLen(a, b, i, j, ahi, bhi) ==
    IF i <= ahi /\ j <= bhi /\ Ch(a, i) = Ch(b, j)
    THEN 1 + CommonLen(a, b, i + 1, j + 1, ahi, bhi)
    ELSE 0

\* SequenceMatcher.find_longest_match over a[alo..ahi], b[blo..bhi] (1-based,
\* inclusive): <<i, j, k>>, k = 0 when nothing matches
find_longest_match(a, b, alo, ahi, blo, bhi) ==
    LET pairs == (alo..ahi) \X (blo..bhi)
        len(p) == CommonLen(a, b, p[1], p[2], ahi, bhi)
        best == IF pairs = {} THEN <<alo, blo>>
                ELSE CHOOSE p \in pairs :
                        \A q \in pairs :
                            \/ len(p) > len(q)
                            \/ /\ len(p) = len(q)
                               /\ \/ p[1] < q[1]
                                  \/ p[1] = q[1] /\ p[2] <= q[2]
    IN IF pairs = {} THEN <<alo, blo, 0>> ELSE <<best[1], best[2], len(best)>>

\* SequenceMatcher.get_matching_blocks, summed: the matched characters
RECURSIVE MatchTotal(_, _, _, _, _, _)
MatchTotal(a, b, alo, ahi, blo, bhi) ==
    LET m == find_longest_match(a, b, alo, ahi, blo, bhi)
    IN IF m[3] = 0 THEN 0
       ELSE m[3] + MatchTotal(a, b, alo, m[1] - 1, blo, m[2] - 1)
                 + MatchTotal(a, b, m[1] + m[3], ahi, m[2] + m[3], bhi)

\* ratio() >= pct / 100
RatioAtLeast(a, b, pct) ==
    IF Len(a) + Len(b) = 0 THEN TRUE
    ELSE 200 * MatchTotal(a, b, 1, Len(a), 1, Len(b)) >= pct * (Len(a) + Len(b))

---------------------------------------------------------------------------
(* Python truthiness, str() and float() on values                          *)

\* bool(v): None, 0 and "" are false
Truthy(v) == (IsNum(v) /\ v.n # 0) \/ (IsStr(v) /\ v.s # "") \/ IsDate(v)

\* str(v or "") for a text cell or field (text columns hold text or nothing)
TextOr(v) == IF IsStr(v) THEN v.s ELSE ""

\* "v is None or str(v).strip() == ''": the blank test of every merge
IsBlank(v) == IsNone(v) \/ (IsStr(v) /\ Strip(v.s) = "")

DigitVal(c) == (CHOOSE i \in 1..Len(Digits) : Ch(Digits, i) = c) - 1

IsDigits(t) == t # "" /\ \A i \in 1..Len(t) : InText(Ch(t, i), Digits)

RECURSIVE DigitsVal(_)
DigitsVal(t) ==
    IF t = "" THEN 0 ELSE 10 * DigitsVal(SubSeq(t, 1, Len(t) - 1)) + DigitVal(Ch(t, Len(t)))

\* the position of the first "." of t, or 0
DotAt(t) == IF InText(".", t) THEN CHOOSE i \in 1..Len(t) : Ch(t, i) = "." /\ ~InText(".", SubSeq(t, 1, i - 1)) ELSE 0

\* float(t) of an unsigned decimal text with at most two decimals, in
\* hundredths; -1 where float() raises ValueError
ParseDec(t) ==
    LET u == Strip(t)
        d == DotAt(u)
        whole == IF d = 0 THEN u ELSE SubSeq(u, 1, d - 1)
        frac == IF d = 0 THEN "" ELSE SubSeq(u, d + 1, Len(u))
    IN IF IsDigits(whole) /\ (frac = "" \/ (IsDigits(frac) /\ Len(frac) <= 2))
       THEN 100 * DigitsVal(whole)
            + (IF frac = "" THEN 0
               ELSE IF Len(frac) = 1 THEN 10 * DigitsVal(frac) ELSE DigitsVal(frac))
       ELSE -1

\* float(v) inside try/except (TypeError, ValueError): the number, or None
\* where the conversion raises
ToFloat(v) ==
    IF IsNum(v) THEN v
    ELSE IF IsStr(v) /\ ParseDec(v.s) >= 0 THEN Num(ParseDec(v.s))
    ELSE None

Abs(x) == IF x < 0 THEN -x ELSE x

---------------------------------------------------------------------------
(* Investment comps: the incremental matcher of InvestmentCompsWriter      *)

\* InvestmentCompsWriter.COLUMNS, B..T
InvCols ==
    <<"date", "quarter", "town", "style", "address", "units", "area_sqft",
      "rent_pa", "rent_psf", "awultc", "price", "yield_niy",
      "reversionary_yield", "capval_psf", "vendor", "purchaser", "comment",
      "source_deal", "source_file_path">>

ColSet(cols) == {cols[i] : i \in 1..Len(cols)}

\* InvestmentCompsWriter._parse_quarter: "2025 Q1" or "Q1 2025" (a prefix
\* match, any case) to year * 4 + quarter; -1 for None
_parse_quarter(q) ==
    LET t == Upper(Strip(q))
        u == LStrip(Mid(t, 5, Len(t)))
        w == LStrip(Mid(t, 3, Len(t)))
    IN IF Len(t) >= 4 /\ IsDigits(SubSeq(t, 1, 4)) /\ Len(u) >= 2 /\ Ch(u, 1) = "Q"
          /\ InText(Ch(u, 2), "1234")
       THEN DigitsVal(SubSeq(t, 1, 4)) * 4 + DigitVal(Ch(u, 2))
       ELSE IF Len(t) >= 2 /\ Ch(t, 1) = "Q" /\ InText(Ch(t, 2), "1234")
               /\ Len(w) >= 4 /\ IsDigits(SubSeq(w, 1, 4))
       THEN DigitsVal(SubSeq(w, 1, 4)) * 4 + DigitVal(Ch(t, 2))
       ELSE -1

\* InvestmentCompsWriter._is_price_close, tolerance 0.05: "T", "F", or "E"
\* where the division by a zero average raises ZeroDivisionError
_is_price_close(price_a, price_b) ==
    IF ~Truthy(price_a) \/ ~Truthy(price_b) THEN "F"
    ELSE LET a == price_a.n
             b == price_b.n
         IN IF a + b = 0 THEN "E"
            ELSE IF a + b < 0 THEN "T"
            ELSE IF 40 * Abs(a - b) <= a + b THEN "T" ELSE "F"

\* the word-overlap test shared by the deal and address matchers: at least
\* two common significant words, at least 60% of the smaller set
WordOverlap(wa, wb) ==
    /\ wa # {} /\ wb # {}
    /\ LET overlap == Cardinality(wa \cap wb)
           shorter_len == IF Cardinality(wa) <= Cardinality(wb)
                          THEN Cardinality(wa) ELSE Cardinality(wb)
       IN overlap >= 2 /\ 10 * overlap >= 6 * shorter_len

\* InvestmentCompsWriter._is_address_close
_is_address_close(addr_a, addr_b) ==
    LET a == _normalize_name(addr_a)
        b == _normalize_name(addr_b)
        shorter == IF Len(a) <= Len(b) THEN a ELSE b
    IN /\ a # "" /\ b # ""
       /\ \/ a = b
          \/ Len(Split(shorter)) >= 2 /\ (Contains(b, a) \/ Contains(a, b))
          \/ WordOverlap(_significant_words(addr_a), _significant_words(addr_b))
          \/ RatioAtLeast(a, b, 85)

\* InvestmentCompsWriter._find_duplicate_row, from data row `row` on: the
\* matching row (1 = DATA_START_ROW), 0 for None, -1 where the price
\* comparison raises
RECURSIVE InvFindFrom(_, _, _)
InvFindFrom(ws, comp, row) ==
    IF row > Len(ws) THEN 0
    ELSE LET existing_addr == Strip(TextOr(ws[row].address))
             existing_price == ToFloat(ws[row].price)
             close == _is_price_close(comp.price, existing_price)
             comp_quarter_ord == _parse_quarter(TextOr(comp.quarter))
             existing_quarter_ord == _parse_quarter(Strip(TextOr(ws[row].quarter)))
         IN IF existing_addr = "" THEN InvFindFrom(ws, comp, row + 1)
            ELSE IF IsNone(existing_price) THEN InvFindFrom(ws, comp, row + 1)
            ELSE IF close = "E" THEN -1
            ELSE IF close = "F" THEN InvFindFrom(ws, comp, row + 1)
            ELSE IF comp_quarter_ord # -1 /\ existing_quarter_ord # -1
                    /\ Abs(comp_quarter_ord - existing_quarter_ord) > 1
                 THEN InvFindFrom(ws, comp, row + 1)
            ELSE IF ~_is_address_close(TextOr(comp.address), existing_addr)
                 THEN InvFindFrom(ws, comp, row + 1)
            ELSE row

Inv_find_duplicate_row(ws, comp) ==
    IF ~Truthy(comp.price) THEN 0 ELSE InvFindFrom(ws, comp, 1)

---------------------------------------------------------------------------
(* Investment comps: the batch duplicate scan of find_inv_dupes.main       *)

\* a pair test that lets a priced row match an unpriced one
ScanPairMatch_one_sided(a, b) ==
    LET price_a == ToFloat(a.price)
        price_b == ToFloat(b.price)
        close == _is_price_close(price_a, price_b)
        qa == _parse_quarter(TextOr(a.quarter))
        qb == _parse_quarter(TextOr(b.quarter))
    IN IF Truthy(price_a) /\ Truthy(price_b) /\ close = "E" THEN "E"
       ELSE IF Truthy(price_a) /\ Truthy(price_b) /\ close = "F" THEN "F"
       ELSE IF qa # -1 /\ qb # -1 /\ Abs(qa - qb) > 1 THEN "F"
       ELSE IF ~_is_address_close(Strip(TextOr(a.address)), Strip(TextOr(b.address)))
            THEN "F"
       ELSE "T"

\* find_inv_dupes.main, the pair test of the scan loop on sheet rows a, b:
\* "T", "F", or "E" where is_price_close divides by a zero average
ScanPairMatch(a, b) ==
    LET price_a == ToFloat(a.price)
        price_b == ToFloat(b.price)
        close == _is_price_close(price_a, price_b)
        qa == _parse_quarter(TextOr(a.quarter))
        qb == _parse_quarter(TextOr(b.quarter))
    IN IF Truthy(price_a) /\ Truthy(price_b) /\ close = "E" THEN "E"
       ELSE IF Truthy(price_a) /\ Truthy(price_b) /\ close = "F" THEN "F"
       ELSE IF ~(Truthy(price_a) /\ Truthy(price_b)) /\ (Truthy(price_a) \/ Truthy(price_b))
            THEN "F"
       ELSE IF qa # -1 /\ qb # -1 /\ Abs(qa - qb) > 1 THEN "F"
       ELSE IF ~_is_address_close(Strip(TextOr(a.address)), Strip(TextOr(b.address)))
            THEN "F"
       ELSE "T"

\* find_inv_dupes.main, the scan loop: rows with a blank address are not
\* loaded; a row already reported as a duplicate is not compared again
RECURSIVE ScanFrom(_, _, _, _, _)
ScanFrom(ws, i, j, seen, acc) ==
    IF i > Len(ws) THEN [dupes |-> acc, error |-> FALSE]
    ELSE IF Strip(TextOr(ws[i].address)) = "" \/ i \in seen \/ j > Len(ws)
         THEN ScanFrom(ws, i + 1, i + 2, seen, acc)
    ELSE IF Strip(TextOr(ws[j].address)) = "" \/ j \in seen
         THEN ScanFrom(ws, i, j + 1, seen, acc)
    ELSE LET m == ScanPairMatch(ws[i], ws[j])
         IN IF m = "E" THEN [dupes |-> acc, error |-> TRUE]
            ELSE IF m = "F" THEN ScanFrom(ws, i, j + 1, seen, acc)
            ELSE ScanFrom(ws, i, j + 1, seen \cup {j}, Append(acc, <<i, j>>))

find_inv_dupes(ws) == ScanFrom(ws, 1, 2, {}, <<>>)

---------------------------------------------------------------------------
(* Occupational comps: the incremental matcher of the Excel writer         *)

\* OccupationalCompsWriter.HEADERS / COL_*, A..S
OccCols ==
    <<"source_deal", "entry_type", "tenant_name", "unit_name", "address",
      "town", "postcode", "size_sqft", "rent_pa", "rent_psf", "lease_start",
      "lease_expiry", "break_date", "rent_review_date", "lease_term_years",
      "comp_date", "notes", "source_file_path", "extraction_date">>

\* the tenant names both incremental matchers leave out
VacantNames == {"vacant", "vacant under offer"}

\* OccupationalCompsWriter._is_rent_close, tolerance 0.005
_is_rent_close(rent_a, rent_b) ==
    IF ~Truthy(rent_a) \/ ~Truthy(rent_b) THEN FALSE
    ELSE LET a == rent_a.n
             b == rent_b.n
         IN IF a + b = 0 THEN FALSE
            ELSE IF a + b < 0 THEN TRUE
            ELSE 400 * Abs(a - b) <= a + b

\* "float(v) if v else None" inside try/except: a rent cell as a number
CellRent(v) == IF Truthy(v) THEN ToFloat(v) ELSE None

\* _find_duplicate_row._rents_match: rent PA, or PSF where both PA are None
Occ_rents_match(comp, existing_rent, existing_rent_psf) ==
    \/ _is_rent_close(comp.rent_pa, existing_rent)
    \/ /\ IsNone(comp.rent_pa) /\ IsNone(existing_rent)
       /\ _is_rent_close(comp.rent_psf, existing_rent_psf)

\* the three phases of OccupationalCompsWriter._find_duplicate_row on one row
OccRowMatches(r, comp, comp_tenant, comp_unit) ==
    LET existing_tenant == _normalise_tenant(Strip(TextOr(r.tenant_name)))
        existing_unit == _normalise_unit(Strip(TextOr(r.unit_name)))
        rents == Occ_rents_match(comp, CellRent(r.rent_pa), CellRent(r.rent_psf))
    IN /\ Truthy(r.source_deal)
       /\ existing_tenant \notin VacantNames
       /\ rents
       /\ \/ comp_tenant # "" /\ existing_tenant = comp_tenant
          \/ comp_unit # "" /\ existing_unit # "" /\ comp_unit = existing_unit
          \/ /\ comp_tenant # "" /\ existing_tenant # ""
             /\ RatioAtLeast(comp_tenant, existing_tenant, 90)

\* the least member of a set of row numbers, 0 for the empty set
FirstOf(S) == IF S = {} THEN 0 ELSE CHOOSE i \in S : \A j \in S : i <= j

\* OccupationalCompsWriter._find_duplicate_row: the first matching data row
\* (1 = sheet row 2), 0 for None
Occ_find_duplicate_row(ws, comp) ==
    LET comp_tenant == _normalise_tenant(TextOr(comp.tenant_name))
        comp_unit == _normalise_unit(TextOr(comp.unit_name))
    IN IF comp_tenant \in VacantNames THEN 0
       ELSE FirstOf({row \in 1..Len(ws) : OccRowMatches(ws[row], comp, comp_tenant, comp_unit)})

---------------------------------------------------------------------------
(* Occupational comps: the matcher of the database store                   *)

\* occ_comps_db._is_rent_close
Db_is_rent_close(rent_a, rent_b) ==
    IF ~Truthy(rent_a) \/ ~Truthy(rent_b) THEN FALSE
    ELSE LET a == rent_a.n
             b == rent_b.n
         IN IF a + b = 0 THEN FALSE
            ELSE IF a + b < 0 THEN TRUE
            ELSE 400 * Abs(a - b) <= a + b

\* RawOccCompsDB._find_duplicate._rents_match
Db_rents_match(comp, existing_rent_pa, existing_rent_psf) ==
    \/ Db_is_rent_close(comp.rent_pa, existing_rent_pa)
    \/ /\ IsNone(comp.rent_pa) /\ IsNone(existing_rent_pa)
       /\ Db_is_rent_close(comp.rent_psf, existing_rent_psf)

\* RawOccCompsDB._find_duplicate over the table rows in id order: the id of
\* the match (the position in db), 0 for None; one query per phase
_find_duplicate(db, comp, tenant_norm, unit_norm) ==
    LET rm(i) == Db_rents_match(comp, db[i].rent_pa, db[i].rent_psf)
        phase1 == FirstOf({i \in 1..Len(db) :
                      /\ db[i].tenant_name_norm = tenant_norm
                      /\ db[i].tenant_name_norm \notin VacantNames
                      /\ rm(i)})
        phase2 == FirstOf({i \in 1..Len(db) :
                      /\ db[i].unit_name_norm = unit_norm
                      /\ db[i].unit_name_norm # ""
                      /\ rm(i)})
        phase3 == FirstOf({i \in 1..Len(db) :
                      /\ db[i].tenant_name_norm # ""
                      /\ db[i].tenant_name_norm \notin VacantNames
                      /\ rm(i)
                      /\ RatioAtLeast(tenant_norm, db[i].tenant_name_norm, 90)})
    IN IF tenant_norm \in VacantNames THEN 0
       ELSE IF tenant_norm # "" /\ phase1 # 0 THEN phase1
       ELSE IF unit_norm # "" /\ phase2 # 0 THEN phase2
       ELSE IF tenant_norm # "" /\ phase3 # 0 THEN phase3
       ELSE 0

---------------------------------------------------------------------------
(* Writing a record into a row, and the fill-blank merges                  *)

\* "v or ''" as _write_comp and _insert_new apply it to text fields
OrEmpty(v) == IF Truthy(v) THEN v ELSE Str("")

\* a yield percentage as the decimal the sheet stores: comp.yield_niy / 100
YieldCell(v) == IF IsNone(v) THEN None ELSE Num(v.n \div 100)

\* InvestmentCompsWriter._write_comp onto the cells `old` of the target row
Inv_write_comp(old, comp) ==
    [c \in ColSet(InvCols) |->
        IF c \in {"town", "address"} THEN comp[c]
        ELSE IF c \in {"units", "area_sqft", "rent_pa", "rent_psf", "awultc", "price",
                       "capval_psf"}
             THEN (IF IsNone(comp[c]) THEN old[c] ELSE comp[c])
        ELSE IF c \in {"yield_niy", "reversionary_yield"}
             THEN (IF IsNone(comp[c]) THEN old[c] ELSE YieldCell(comp[c]))
        ELSE IF Truthy(comp[c]) THEN comp[c] ELSE old[c]]

\* InvestmentCompsWriter._merge_into_row, the field map: column -> new value
Inv_field_map(comp) ==
    [c \in ColSet(InvCols) |->
        IF c \in {"yield_niy", "reversionary_yield"} THEN YieldCell(comp[c]) ELSE comp[c]]

\* InvestmentCompsWriter._merge_into_row on the cells of the kept row
Inv_merge_into_row(existing, comp) ==
    LET field_map == Inv_field_map(comp)
        filled == {c \in ColSet(InvCols) :
                      /\ ~IsNone(field_map[c])
                      /\ ~(IsStr(field_map[c]) /\ Strip(field_map[c].s) = "")
                      /\ ~(~IsNone(existing[c])
                           /\ ~(IsStr(existing[c]) /\ Strip(existing[c].s) = ""))}
    IN [row |-> [c \in ColSet(InvCols) |-> IF c \in filled THEN field_map[c] ELSE existing[c]],
        fills |-> Cardinality(filled)]

\* OccupationalCompsWriter._write_comp onto the cells `old` of the target
\* row; today is datetime.now() as dd/mm/yyyy
Occ_write_comp(old, comp, today) ==
    [c \in ColSet(OccCols) |->
        IF c \in {"source_deal", "entry_type", "tenant_name", "address", "town"} THEN comp[c]
        ELSE IF c \in {"unit_name", "postcode", "lease_start", "lease_expiry", "break_date",
                       "rent_review_date", "comp_date", "notes"}
             THEN OrEmpty(comp[c])
        ELSE IF c \in {"size_sqft", "rent_pa", "rent_psf", "lease_term_years"}
             THEN (IF IsNone(comp[c]) THEN old[c] ELSE comp[c])
        ELSE IF c = "source_file_path"
             THEN (IF Truthy(comp[c]) THEN comp[c] ELSE old[c])
        ELSE Str(today)]

\* the columns OccupationalCompsWriter._merge_into_row maps (not the source,
\* the entry type, the source file or the extraction date)
Occ_field_map ==
    {"tenant_name", "unit_name", "address", "town", "postcode", "size_sqft",
     "rent_pa", "rent_psf", "lease_start", "lease_expiry", "break_date",
     "rent_review_date", "lease_term_years", "comp_date", "notes"}

\* OccupationalCompsWriter._merge_into_row on the cells of the kept row
Occ_merge_into_row(existing, comp) ==
    LET filled == {c \in Occ_field_map :
                      /\ ~IsNone(comp[c])
                      /\ ~(IsStr(comp[c]) /\ Strip(comp[c].s) = "")
                      /\ ~(~IsNone(existing[c])
                           /\ ~(IsStr(existing[c]) /\ Strip(existing[c].s) = ""))}
    IN [row |-> [c \in ColSet(OccCols) |-> IF c \in filled THEN comp[c] ELSE existing[c]],
        fills |-> Cardinality(filled)]

\* occ_comps_db._RAW_DB_COLS
_RAW_DB_COLS ==
    <<"source_deal", "entry_type", "tenant_name", "unit_name", "address",
      "town", "postcode", "size_sqft", "rent_pa", "rent_psf", "lease_start",
      "lease_expiry", "break_date", "rent_review_date", "lease_term_years",
      "comp_date", "notes", "source_file_path", "extraction_date">>

\* occ_comps_db._MERGE_FIELDS
_MERGE_FIELDS ==
    {"tenant_name", "unit_name", "address", "town", "postcode", "size_sqft",
     "rent_pa", "rent_psf", "lease_start", "lease_expiry", "break_date",
     "rent_review_date", "lease_term_years", "comp_date", "notes"}

\* the columns of raw_occupational_comps: the raw columns, the two
\* normalised keys (plain text) and the two timestamps (a logical clock)
DbCols == ColSet(_RAW_DB_COLS) \cup {"tenant_name_norm", "unit_name_norm", "created_at", "updated_at"}

\* RawOccCompsDB._insert_new: the row the INSERT stores
_insert_new(comp, tenant_norm, unit_norm, now, today) ==
    [c \in DbCols |->
        IF c = "tenant_name_norm" THEN tenant_norm
        ELSE IF c = "unit_name_norm" THEN unit_norm
        ELSE IF c \in {"created_at", "updated_at"} THEN now
        ELSE IF c = "extraction_date" THEN Str(today)
        ELSE IF c = "entry_type" THEN (IF Truthy(comp[c]) THEN comp[c] ELSE Str("tenancy"))
        ELSE IF c \in {"source_deal", "size_sqft", "rent_pa", "rent_psf", "lease_term_years"}
             THEN comp[c]
        ELSE OrEmpty(comp[c])]

\* a merge that takes a falsy stored value (a zero) for a blank
Db_merge_into_row_falsy(existing, comp, now) ==
    LET updates == {c \in _MERGE_FIELDS :
                       /\ ~IsNone(comp[c])
                       /\ ~(IsStr(comp[c]) /\ Strip(comp[c].s) = "")
                       /\ ~Truthy(existing[c])}
    IN IF updates = {} THEN [row |-> existing, fills |-> 0]
       ELSE [row |-> [c \in DbCols |->
                        IF c \in updates THEN comp[c]
                        ELSE IF c = "tenant_name_norm" /\ "tenant_name" \in updates
                             THEN normalise_tenant(comp.tenant_name.s)
                        ELSE IF c = "unit_name_norm" /\ "unit_name" \in updates
                             THEN normalise_unit(comp.unit_name.s)
                        ELSE IF c = "updated_at" THEN now
                        ELSE existing[c]],
             fills |-> Cardinality(updates)]

\* RawOccCompsDB._merge_into_row on the stored row `existing`
Db_merge_into_row(existing, comp, now) ==
    LET updates == {c \in _MERGE_FIELDS :
                       /\ ~IsNone(comp[c])
                       /\ ~(IsStr(comp[c]) /\ Strip(comp[c].s) = "")
                       /\ ~(~IsNone(existing[c])
                            /\ ~(IsStr(existing[c]) /\ Strip(existing[c].s) = ""))}
    IN IF updates = {} THEN [row |-> existing, fills |-> 0]
       ELSE [row |-> [c \in DbCols |->
                        IF c \in updates THEN comp[c]
                        ELSE IF c = "tenant_name_norm" /\ "tenant_name" \in updates
                             THEN normalise_tenant(comp.tenant_name.s)
                        ELSE IF c = "unit_name_norm" /\ "unit_name" \in updates
                             THEN normalise_unit(comp.unit_name.s)
                        ELSE IF c = "updated_at" THEN now
                        ELSE existing[c]],
             fills |-> Cardinality(updates)]

---------------------------------------------------------------------------
(* Inputs of the pure-function specifications                              *)

\* a sheet row no cell of which was ever written
EmptyInvRow == [c \in ColSet(InvCols) |-> None]
EmptyOccRow == [c \in ColSet(OccCols) |-> None]

\* datetime.now() as the writers format it
Today == "01/02/2026"

InvNumCols ==
    {"units", "area_sqft", "rent_pa", "rent_psf", "awultc", "price", "yield_niy",
     "reversionary_yield", "capval_psf"}

OccNumCols == {"size_sqft", "rent_pa", "rent_psf", "lease_term_years"}

\* what a cell of a hand-edited sheet may hold
CellVals == {None, Str(""), Str(" "), Str("Old"), Num(0), Num(12500)}

\* what a field of an extracted record may hold
TextVals == {None, Str(""), Str(" "), Str("New")}
NumVals == {None, Num(0), Num(99900)}

\* a row or record with every column v, and column c set to w
Uniform(cols, v, c, w) == [x \in cols |-> IF x = c THEN w ELSE v]

\* a record whose text fields are t and whose numeric fields are n, but
\* field c is w
TypedBut(cols, nums, t, n, c, w) ==
    [x \in cols |-> IF x = c THEN w ELSE IF x \in nums THEN n ELSE t]

\* the fields of an OccupationalComp
OccFields == ColSet(OccCols) \ {"extraction_date"}

\* (kept row, duplicate record) pairs of a sheet: one column ranges over
\* every cell value and field value, the others are all blank or all
\* populated
SheetMergeInputs(cols, fields, nums) ==
    UNION {{[kept |-> Uniform(cols, kv, c, k),
             comp |-> TypedBut(fields, nums, dv[1], dv[2], c, d)] :
               kv \in {None, Str("Old")},
               dv \in {<<None, None>>, <<Str("New"), Num(99900)>>},
               k \in CellVals,
               d \in IF c \in nums THEN NumVals ELSE TextVals} : c \in fields}

\* a record as insert_comp stores it
Stored(comp, now) ==
    _insert_new(comp, normalise_tenant(TextOr(comp.tenant_name)),
                normalise_unit(TextOr(comp.unit_name)), now, Today)

\* the same for the database: the kept row is a stored row, inserted from a
\* record whose fields are all blank or all populated but one
DbMergeInputs ==
    UNION {{[kept |-> Stored(TypedBut(OccFields, OccNumCols, kv[1], kv[2], c, k), 1),
             comp |-> TypedBut(OccFields, OccNumCols, dv[1], dv[2], c, d)] :
               kv \in {<<None, None>>, <<Str("Old"), Num(12500)>>},
               dv \in {<<None, None>>, <<Str("New"), Num(99900)>>},
               k \in IF c \in OccNumCols THEN NumVals ELSE TextVals \cup {Str("Old Ltd")},
               d \in IF c \in OccNumCols THEN NumVals ELSE TextVals} : c \in OccFields}

---------------------------------------------------------------------------
(* SpecMerge: each merge implementation applied to a kept row              *)

InitMerge ==
    /\ GatewayOff
    /\ fn \in {"inv_merge", "occ_merge", "db_merge"}
    /\ inp \in CASE fn = "inv_merge" -> SheetMergeInputs(ColSet(InvCols), ColSet(InvCols), InvNumCols)
                 [] fn = "occ_merge" -> SheetMergeInputs(ColSet(OccCols), OccFields, OccNumCols)
                 [] OTHER -> DbMergeInputs
    /\ out = [stage |-> "in"]

InvMerge ==
    /\ fn = "inv_merge" /\ out.stage = "in"
    /\ out' = [stage |-> "out", row |-> Inv_merge_into_row(inp.kept, inp.comp).row,
               fills |-> Inv_merge_into_row(inp.kept, inp.comp).fills]
    /\ UNCHANGED <<fn, inp, gvars>>

OccMerge ==
    /\ fn = "occ_merge" /\ out.stage = "in"
    /\ out' = [stage |-> "out", row |-> Occ_merge_into_row(inp.kept, inp.comp).row,
               fills |-> Occ_merge_into_row(inp.kept, inp.comp).fills]
    /\ UNCHANGED <<fn, inp, gvars>>

DbMerge ==
    /\ fn = "db_merge" /\ out.stage = "in"
    /\ out' = [stage |-> "out", row |-> Db_merge_into_row(inp.kept, inp.comp, 2).row,
               fills |-> Db_merge_into_row(inp.kept, inp.comp, 2).fills]
    /\ UNCHANGED <<fn, inp, gvars>>

NextMerge == InvMerge \/ OccMerge \/ DbMerge

SpecMerge == InitMerge /\ [][NextMerge]_vars

\* a cell, field or column holds data
Populated(v) == ~IsBlank(v)

MergeRan == fn \in {"inv_merge", "occ_merge", "db_merge"} /\ out.stage = "out"

\* C1: after a merge by any of the three implementations, every column of
\* the kept row that was non-blank before the merge holds the value it held
\* before (in the database row: every raw column, the two normalised keys
\* and created_at; updated_at is the row's modification stamp)
MergeNeverDestroys ==
    MergeRan =>
        /\ \A c \in DOMAIN inp.kept \ {"tenant_name_norm", "unit_name_norm", "created_at", "updated_at"} :
              Populated(inp.kept[c]) => out.row[c] = inp.kept[c]
        /\ fn = "db_merge" =>
              /\ \A c \in {"tenant_name_norm", "unit_name_norm"} :
                    inp.kept[c] # "" => out.row[c] = inp.kept[c]
              /\ out.row.created_at = inp.kept.created_at

\* C1 witness: a database merge left a stored zero alone where the
\* duplicate carries a figure, on a row whose other populated columns the
\* duplicate contradicts
MergeKeptBesideConflict ==
    /\ MergeRan /\ fn = "db_merge"
    /\ \E c \in _MERGE_FIELDS :
          inp.kept[c] = Num(0) /\ Truthy(inp.comp[c]) /\ out.row[c] = Num(0)
    /\ \E c \in _MERGE_FIELDS :
          /\ Populated(inp.kept[c]) /\ Populated(inp.comp[c])
          /\ inp.kept[c] # Num(0) /\ inp.comp[c] # inp.kept[c]

---------------------------------------------------------------------------
(* SpecMatch: the duplicate matchers applied to a store and a candidate    *)

\* the longest sheet or table the matchers are run on
MaxSheetRows == 2

InvComp(address, price, quarter) ==
    [c \in ColSet(InvCols) |->
        IF c = "address" THEN address ELSE IF c = "price" THEN price
        ELSE IF c = "quarter" THEN quarter ELSE IF c = "town" THEN Str("Leeds")
        ELSE IF c = "source_deal" THEN Str("Deal A") ELSE None]

\* candidate investment comps
InvCompPool ==
    {InvComp(Str("1 High St"), p, q) :
        p \in {None, Num(0), Num(100000)}, q \in {None, Str("2025 Q1")}}

\* rows of the investment sheet: written by the writer, or typed by hand
InvRowPool ==
    {Inv_write_comp(EmptyInvRow, InvComp(Str("1 High Street"), p, Str("Q2 2025"))) :
        p \in {None, Num(0), Num(103000)}}
    \cup {InvComp(a, p, Str("2025 q1")) :
        a \in {Str("1 High St"), Str("")}, p \in {Str("TBC"), Str("1000"), Num(100000)}}
    \cup {InvComp(Str("9 Mill Lane"), Num(100000), Str("2026 Q1"))}

OccComp(tenant_name, unit_name, rent_pa, rent_psf) ==
    [c \in OccFields |->
        IF c = "tenant_name" THEN tenant_name ELSE IF c = "unit_name" THEN unit_name
        ELSE IF c = "rent_pa" THEN rent_pa ELSE IF c = "rent_psf" THEN rent_psf
        ELSE IF c = "source_deal" THEN Str("Deal A")
        ELSE IF c = "entry_type" THEN Str("tenancy") ELSE None]

\* occupational comps: candidates, and the records behind the stored rows
OccCompPool ==
    {OccComp(Str("Acme Ltd"), Str("Unit 1"), Num(100000), None),
     OccComp(Str("ACME Limited"), None, Num(100400), None),
     OccComp(Str("Planetbloom"), Str("Unit 02"), None, Num(850)),
     OccComp(Str("Planet Bloom"), None, None, Num(850)),
     OccComp(Str("Vacant"), Str("Unit 1"), Num(100000), None),
     OccComp(Str("VACANT - TBC"), Str("Unit 3"), Num(100000), None),
     OccComp(Str("Vacant under offer"), Str("2"), None, Num(850)),
     OccComp(None, Str("01"), Num(100000), None),
     OccComp(Str("Bolt plc"), Str("Unit 3"), Num(500000), None)}

SeqsUpTo(S, n) == UNION {[1..m -> S] : m \in 0..n}

InitMatch ==
    /\ GatewayOff
    /\ fn \in {"inv_find", "inv_scan", "occ_find", "db_find", "both_find"}
    /\ inp \in CASE fn = "inv_find" ->
                      {[ws |-> w, comp |-> c] : w \in SeqsUpTo(InvRowPool, MaxSheetRows), c \in InvCompPool}
                 [] fn = "inv_scan" ->
                      {[ws |-> w] : w \in SeqsUpTo(InvRowPool, MaxSheetRows)}
                 [] fn = "occ_find" ->
                      {[ws |-> [i \in DOMAIN w |-> Occ_write_comp(EmptyOccRow, w[i], Today)],
                        comp |-> c] : w \in SeqsUpTo(OccCompPool, MaxSheetRows), c \in OccCompPool}
                 [] fn = "both_find" ->
                      {[ws |-> w, comp |-> c] :
                          w \in SeqsUpTo(OccCompPool, MaxSheetRows), c \in OccCompPool}
                 [] OTHER ->
                      {[ws |-> [i \in DOMAIN w |-> Stored(w[i], i)], comp |-> c] :
                          w \in SeqsUpTo(OccCompPool, MaxSheetRows), c \in OccCompPool}
    /\ out = [stage |-> "in"]

InvFind ==
    /\ fn = "inv_find" /\ out.stage = "in"
    /\ out' = [stage |-> "out", row |-> Inv_find_duplicate_row(inp.ws, inp.comp)]
    /\ UNCHANGED <<fn, inp, gvars>>

InvScan ==
    /\ fn = "inv_scan" /\ out.stage = "in"
    /\ out' = [stage |-> "out", dupes |-> find_inv_dupes(inp.ws).dupes,
               error |-> find_inv_dupes(inp.ws).error]
    /\ UNCHANGED <<fn, inp, gvars>>

OccFind ==
    /\ fn = "occ_find" /\ out.stage = "in"
    /\ out' = [stage |-> "out", row |-> Occ_find_duplicate_row(inp.ws, inp.comp)]
    /\ UNCHANGED <<fn, inp, gvars>>

DbFind ==
    /\ fn = "db_find" /\ out.stage = "in"
    /\ out' = [stage |-> "out",
               row |-> _find_duplicate(inp.ws, inp.comp,
                                       normalise_tenant(TextOr(inp.comp.tenant_name)),
                                       normalise_unit(TextOr(inp.comp.unit_name)))]
    /\ UNCHANGED <<fn, inp, gvars>>

\* the same records held by both stores (the sheet rows as _write_comp
\* writes them, the table rows as _insert_new stores them, in the same
\* order), and the same candidate handed to both matchers
BothFind ==
    /\ fn = "both_find" /\ out.stage = "in"
    /\ out' = [stage |-> "out",
               row |-> Occ_find_duplicate_row(
                          [i \in DOMAIN inp.ws |-> Occ_write_comp(EmptyOccRow, inp.ws[i], Today)],
                          inp.comp),
               db_row |-> _find_duplicate(
                          [i \in DOMAIN inp.ws |-> Stored(inp.ws[i], i)], inp.comp,
                          normalise_tenant(TextOr(inp.comp.tenant_name)),
                          normalise_unit(TextOr(inp.comp.unit_name)))]
    /\ UNCHANGED <<fn, inp, gvars>>

NextMatch == InvFind \/ InvScan \/ OccFind \/ DbFind \/ BothFind

SpecMatch == InitMatch /\ [][NextMatch]_vars

\* a price cell or field with no usable price: blank, zero or non-numeric
NoPrice(v) == ~Truthy(ToFloat(v))

\* the incremental matcher reports a row only where both sides are priced
IncrementalNeedsPrice ==
    fn = "inv_find" /\ out.stage = "out" /\ out.row > 0 =>
        ~NoPrice(inp.comp.price) /\ ~NoPrice(inp.ws[out.row].price)

\* C2 as stated: no pair with an unpriced side is reported as a duplicate,
\* by the incremental matcher or by the batch scan
PriceRequired ==
    /\ IncrementalNeedsPrice
    /\ fn = "inv_scan" /\ out.stage = "out" =>
          \A i \in 1..Len(out.dupes) :
              /\ ~NoPrice(inp.ws[out.dupes[i][1]].price)
              /\ ~NoPrice(inp.ws[out.dupes[i][2]].price)

\* C2 amended: the incremental matcher never reports a pair with an
\* unpriced side; the batch scan never reports a pair of which exactly one
\* row is priced (two unpriced rows are compared on quarter and address)
PriceRequiredOrBothMissing ==
    /\ IncrementalNeedsPrice
    /\ fn = "inv_scan" /\ out.stage = "out" =>
          \A i \in 1..Len(out.dupes) :
              NoPrice(inp.ws[out.dupes[i][1]].price) <=> NoPrice(inp.ws[out.dupes[i][2]].price)

\* C2 witness: the batch scan reported two unpriced rows of one address as
\* duplicates
ScanMatchedUnpricedPair ==
    /\ fn = "inv_scan" /\ out.stage = "out" /\ Len(out.dupes) = 1
    /\ NoPrice(inp.ws[out.dupes[1][1]].price) /\ NoPrice(inp.ws[out.dupes[1][2]].price)

\* a tenant name whose normalised form is "vacant", alone or followed by
\* qualifier text
VacantTenant(name) ==
    LET ws == Split(_normalise_tenant(TextOr(name)))
    IN ws # <<>> /\ ws[1] = "vacant"

\* C3 as stated: neither incremental matcher returns a match where the
\* candidate's or the matched row's tenant is vacant
VacantExcluded ==
    fn \in {"occ_find", "db_find"} /\ out.stage = "out" /\ out.row > 0 =>
        ~VacantTenant(inp.comp.tenant_name) /\ ~VacantTenant(inp.ws[out.row].tenant_name)

\* C27 as stated: on the same stored records and the same candidate the
\* database matcher and the spreadsheet matcher report a duplicate in the
\* same cases and select the same existing row
MatchersAgree ==
    fn = "both_find" /\ out.stage = "out" => out.db_row = out.row

\* the same with no vacant tenant among the stored records or the candidate
MatchersAgreeOnLetUnits ==
    /\ fn = "both_find" /\ out.stage = "out"
    /\ ~VacantTenant(inp.comp.tenant_name)
    /\ \A i \in DOMAIN inp.ws : ~VacantTenant(inp.ws[i].tenant_name)
    => out.db_row = out.row

---------------------------------------------------------------------------
(* The derivation pass of comps_cleaner.clean_investment_comps            *)

\* comps_cleaner.ACQUISITION_COST_FACTOR = 1.068, in thousandths
ACQUISITION_COST_FACTOR == 1068

\* round(a / b) to the nearest integer, ties to even, as round() rounds
RoundDiv(a, b) ==
    LET n == IF b < 0 THEN -a ELSE a
        d == Abs(b)
        q == n \div d
        r == n % d
    IN IF 2 * r > d THEN q + 1
       ELSE IF 2 * r < d THEN q
       ELSE IF q % 2 = 0 THEN q ELSE q + 1

RECURSIVE RemoveChars(_, _)
RemoveChars(t, drop) ==
    IF t = "" THEN ""
    ELSE (IF Head(t) \in drop THEN "" ELSE Head(t)) \o RemoveChars(Tail(t), drop)

\* comps_cleaner._to_number: None for a blank, a zero, or text that is no
\* number once commas, pound signs and spaces are removed
_to_number(value) ==
    IF IsNum(value) THEN (IF value.n = 0 THEN None ELSE value)
    ELSE IF IsStr(value)
         THEN LET cleaned == Strip(RemoveChars(value.s, {",", "£", " "}))
              IN IF cleaned = "" \/ ParseDec(cleaned) <= 0 THEN None
                 ELSE Num(ParseDec(cleaned))
    ELSE None

\* str(n) of a natural number
RECURSIVE NatText(_)
NatText(n) == IF n < 10 THEN Ch(Digits, n + 1) ELSE NatText(n \div 10) \o Ch(Digits, (n % 10) + 1)

\* int(t): the value of an unsigned decimal text, -1 where int() raises
ParseInt(t) == IF IsDigits(Strip(t)) THEN DigitsVal(Strip(t)) ELSE -1

\* str.split(sep) on a one-character separator
RECURSIVE SplitOnFrom(_, _, _)
SplitOnFrom(t, sep, cur) ==
    IF t = "" THEN <<cur>>
    ELSE IF Head(t) = sep THEN <<cur>> \o SplitOnFrom(Tail(t), sep, "")
    ELSE SplitOnFrom(Tail(t), sep, cur \o Head(t))

SplitOn(t, sep) == SplitOnFrom(t, sep, "")

\* f"{year} Q{quarter}" for a month of a year
QuarterText(year, month) == NatText(year) \o " Q" \o NatText(((month - 1) \div 3) + 1)

\* comps_cleaner._derive_quarter_from_cell: the quarter text, or None
_derive_quarter_from_cell(value) ==
    IF IsDate(value) THEN Str(QuarterText(value.n \div 10000, (value.n \div 100) % 100))
    ELSE IF ~IsStr(value) \/ Strip(value.s) = "" THEN None
    ELSE LET v == Strip(value.s)
             u == Upper(v)
             tail1 == LStrip(Mid(u, 5, Len(u)))
             rest2 == LStrip(Mid(u, 3, Len(u)))
             tail2 == IF rest2 # "" /\ Head(rest2) \in {"-", "/"} THEN LStrip(Tail(rest2)) ELSE rest2
             parts == SplitOn(v, "/")
             month == ParseInt(parts[Len(parts) - 1])
             year == ParseInt(parts[Len(parts)])
         IN IF Len(u) >= 4 /\ IsDigits(SubSeq(u, 1, 4)) /\ tail1 \in {"Q1", "Q2", "Q3", "Q4"}
            THEN Str(SubSeq(u, 1, 4) \o " Q" \o Ch(tail1, 2))
            ELSE IF Len(u) >= 2 /\ SubSeq(u, 1, 2) \in {"Q1", "Q2", "Q3", "Q4"}
                    /\ Len(tail2) = 4 /\ IsDigits(tail2)
            THEN Str(tail2 \o " Q" \o Ch(u, 2))
            ELSE IF Len(parts) \in {2, 3} /\ month >= 1 /\ month <= 12
                    /\ year >= 2000 /\ year <= 2100
            THEN Str(QuarterText(year, month))
            ELSE None

\* the values clean_investment_comps reads from one row before its rules
ReadInvRow(cells) ==
    [cells |-> cells, changes |-> 0,
     quarter_val |-> cells.quarter,
     area |-> _to_number(cells.area_sqft), rent_pa |-> _to_number(cells.rent_pa),
     rent_psf |-> _to_number(cells.rent_psf), price |-> _to_number(cells.price),
     yield_niy |-> _to_number(cells.yield_niy), capval |-> _to_number(cells.capval_psf)]

\* Rule 1: quarter from date
InvRule1(st) ==
    IF ~Truthy(st.quarter_val) /\ Truthy(st.cells.date)
       /\ Truthy(_derive_quarter_from_cell(st.cells.date))
    THEN [st EXCEPT !.cells.quarter = _derive_quarter_from_cell(st.cells.date),
                    !.quarter_val = _derive_quarter_from_cell(st.cells.date),
                    !.changes = @ + 1]
    ELSE st

\* Rule 2: rent PA = round(price * 1.068 * yield, 2)
InvRule2(st) ==
    IF ~Truthy(st.rent_pa) /\ Truthy(st.price) /\ Truthy(st.yield_niy)
    THEN LET v == Num(RoundDiv(st.price.n * ACQUISITION_COST_FACTOR * st.yield_niy.n, 10000000))
         IN [st EXCEPT !.cells.rent_pa = v, !.rent_pa = v, !.changes = @ + 1]
    ELSE st

\* Rule 3 without its "rent PA is blank" precondition
InvRule3_unguarded(st) ==
    IF Truthy(st.rent_psf) /\ Truthy(st.area)
    THEN LET v == Num(RoundDiv(st.rent_psf.n * st.area.n, 100))
         IN [st EXCEPT !.cells.rent_pa = v, !.rent_pa = v, !.changes = @ + 1]
    ELSE st

\* Rule 3: rent PA = round(rent PSF * area, 2)
InvRule3(st) ==
    IF ~Truthy(st.rent_pa) /\ Truthy(st.rent_psf) /\ Truthy(st.area)
    THEN LET v == Num(RoundDiv(st.rent_psf.n * st.area.n, 100))
         IN [st EXCEPT !.cells.rent_pa = v, !.rent_pa = v, !.changes = @ + 1]
    ELSE st

\* Rule 4: rent PSF = round(rent PA / area, 2)
InvRule4(st) ==
    IF ~Truthy(st.rent_psf) /\ Truthy(st.rent_pa) /\ Truthy(st.area)
    THEN LET v == Num(RoundDiv(st.rent_pa.n * 100, st.area.n))
         IN [st EXCEPT !.cells.rent_psf = v, !.rent_psf = v, !.changes = @ + 1]
    ELSE st

\* Rule 5: area = round(rent PA / rent PSF, 0)
InvRule5(st) ==
    IF ~Truthy(st.area) /\ Truthy(st.rent_pa) /\ Truthy(st.rent_psf)
    THEN LET v == Num(100 * RoundDiv(st.rent_pa.n, st.rent_psf.n))
         IN [st EXCEPT !.cells.area_sqft = v, !.area = v, !.changes = @ + 1]
    ELSE st

\* Rule 6: cap val PSF = round(price / area, 2)
InvRule6(st) ==
    IF ~Truthy(st.capval) /\ Truthy(st.price) /\ Truthy(st.area)
    THEN LET v == Num(RoundDiv(st.price.n * 100, st.area.n))
         IN [st EXCEPT !.cells.capval_psf = v, !.capval = v, !.changes = @ + 1]
    ELSE st

\* the loop body with rule 4 run before rules 2 and 3
CleanInvRow_rule4_first(cells) ==
    IF ~Truthy(cells.address) THEN [cells |-> cells, changes |-> 0]
    ELSE LET st == InvRule6(InvRule5(InvRule3(InvRule2(InvRule4(InvRule1(ReadInvRow(cells)))))))
         IN [cells |-> st.cells, changes |-> st.changes]

\* the loop body of clean_investment_comps on one row: rows without an
\* address are skipped, the rules run once each in order
CleanInvRow(cells) ==
    IF ~Truthy(cells.address) THEN [cells |-> cells, changes |-> 0]
    ELSE LET st == InvRule6(InvRule5(InvRule4(InvRule3(InvRule2(InvRule1(ReadInvRow(cells)))))))
         IN [cells |-> st.cells, changes |-> st.changes]

RECURSIVE SumChanges(_)
SumChanges(rs) == IF rs = <<>> THEN 0 ELSE Head(rs).changes + SumChanges(Tail(rs))

\* one derivation pass of clean_investment_comps over the data rows of the
\* sheet: the sheet after the pass and summary["cells_filled"]
CleanInvSheet(ws) ==
    LET rs == [i \in DOMAIN ws |-> CleanInvRow(ws[i])]
    IN [ws |-> [i \in DOMAIN ws |-> rs[i].cells], cells_filled |-> SumChanges(rs)]

---------------------------------------------------------------------------
(* Rules 4 and 5 of occ_comps_cleaner._clean_row                           *)

\* occ_comps_cleaner.SQFT_PER_ACRE
SQFT_PER_ACRE == 43560

\* the number _ACRES_RE captures at position i of text t: digits, optionally
\* [.,] and digits, followed by optional spaces, an optional hyphen and
\* "acres", "acre" or "ac" ending at a word boundary; "" where no match
\* starts at i
AcresAt(t, i) ==
    LET n == Len(t)
        run(j) == CHOOSE e \in j..(n + 1) :
                      /\ \A x \in j..(e - 1) : InText(Ch(t, x), Digits)
                      /\ (e = n + 1 \/ ~InText(Ch(t, e), Digits))
        spaces(j) == CHOOSE e \in j..(n + 1) :
                      /\ \A x \in j..(e - 1) : IsSpaceCh(Ch(t, x))
                      /\ (e = n + 1 \/ ~IsSpaceCh(Ch(t, e)))
        unit(j) == \E w \in {"acres", "acre", "ac"} :
                      /\ Lower(Mid(t, j, j + Len(w) - 1)) = w
                      /\ (j + Len(w) > n \/ ~IsWordCh(Ch(t, j + Len(w))))
        tail(j) == LET a == spaces(j)
                       b == IF a <= n /\ Ch(t, a) = "-" THEN spaces(a + 1) ELSE a
                   IN unit(b) \/ unit(a)
        e1 == run(i)
        e2 == IF e1 < n /\ Ch(t, e1) \in {".", ","} /\ run(e1 + 1) > e1 + 1
              THEN run(e1 + 1) ELSE e1
    IN IF e1 = i THEN ""
       ELSE IF e2 > e1 /\ tail(e2) THEN SubSeq(t, i, e2 - 1)
       ELSE IF tail(e1) THEN SubSeq(t, i, e1 - 1)
       ELSE ""

\* _ACRES_RE.search(notes).group(1), "" where the pattern is not found
AcresIn(notes) ==
    LET hits == {i \in 1..Len(notes) : AcresAt(notes, i) # ""}
    IN IF hits = {} THEN "" ELSE AcresAt(notes, FirstOf(hits))

\* replace "," by "." as _rule_acres_to_sqft does before float()
RECURSIVE CommaToDot(_)
CommaToDot(t) ==
    IF t = "" THEN "" ELSE (IF Head(t) = "," THEN "." ELSE Head(t)) \o CommaToDot(Tail(t))

\* occ_comps_cleaner._rule_acres_to_sqft: round(acres * 43560, 0), or None
_rule_acres_to_sqft(notes) ==
    LET acres == ParseDec(CommaToDot(AcresIn(notes)))
    IN IF notes = "" \/ AcresIn(notes) = "" \/ acres <= 0 THEN None
       ELSE Num(100 * RoundDiv(acres * SQFT_PER_ACRE, 100))

\* _clean_row, rule 4: size from an acreage in the notes
OccRule4(row) ==
    IF IsNone(row.size_sqft) /\ Strip(TextOr(row.notes)) # ""
       /\ ~IsNone(_rule_acres_to_sqft(Strip(TextOr(row.notes))))
    THEN [row EXCEPT !.size_sqft = _rule_acres_to_sqft(Strip(TextOr(row.notes)))]
    ELSE row

\* _clean_row, rule 5, first step: rent PA = round(rent PSF * size, 2)
OccRule5a(row) ==
    IF IsNone(row.rent_pa) /\ Truthy(row.size_sqft) /\ Truthy(row.rent_psf)
    THEN [row EXCEPT !.rent_pa = Num(RoundDiv(row.rent_psf.n * row.size_sqft.n, 100))]
    ELSE row

\* second step: rent PSF = round(rent PA / size, 2)
OccRule5b(row) ==
    IF IsNone(row.rent_psf) /\ Truthy(row.rent_pa) /\ Truthy(row.size_sqft)
    THEN [row EXCEPT !.rent_psf = Num(RoundDiv(row.rent_pa.n * 100, row.size_sqft.n))]
    ELSE row

\* third step: size = round(rent PA / rent PSF, 0)
OccRule5c(row) ==
    IF IsNone(row.size_sqft) /\ Truthy(row.rent_pa) /\ Truthy(row.rent_psf)
    THEN [row EXCEPT !.size_sqft = Num(100 * RoundDiv(row.rent_pa.n, row.rent_psf.n))]
    ELSE row

\* _clean_row on the size and rent fields of a row
_clean_row(row) == OccRule5c(OccRule5b(OccRule5a(OccRule4(row))))

---------------------------------------------------------------------------
(* SpecDerive: a derivation pass run twice                                 *)

\* rows of the investment sheet with every combination of blank and
\* populated inputs of the rules
DeriveInvRows ==
    {[EmptyInvRow EXCEPT !.address = Str("1 High St"), !.date = d, !.quarter = q,
                         !.area_sqft = a, !.rent_pa = pa, !.rent_psf = psf,
                         !.price = pr, !.yield_niy = y, !.capval_psf = cv] :
        d \in {None, Str("15/03/2025"), Str("n/a"), Date(2025, 11, 3)},
        q \in {None, Str("Q1 2024")},
        a \in {None, Num(0), Num(300), Str("1,200")},
        pa \in {None, Num(100000), Str("TBC")},
        psf \in {None, Num(850)},
        pr \in {None, Num(1), Num(3000)},
        y \in {None, Num(650)},
        cv \in {None, Num(12500)}}

\* rows of the raw occupational table as _read_raw_rows hands them to
\* _clean_row: a number is a non-zero number or None
DeriveOccRows ==
    {[size_sqft |-> sz, rent_pa |-> pa, rent_psf |-> psf, notes |-> Str(n)] :
        sz \in {None, Num(300), Num(43600)},
        pa \in {None, Num(1), Num(100000)},
        psf \in {None, Num(850), Num(20000)},
        n \in {"", "Site c. 0.01 acres", "0,02 ac yard", "acreage 5"}}

InitDerive ==
    /\ GatewayOff
    /\ fn \in {"inv_clean", "occ_clean"}
    /\ inp \in CASE fn = "inv_clean" ->
                      {<<r>> : r \in DeriveInvRows}
                      \cup {<<[r EXCEPT !.address = None], r>> : r \in DeriveInvRows}
                 [] OTHER -> {<<r>> : r \in DeriveOccRows}
    /\ out = [stage |-> "in"]

\* clean_investment_comps runs over the sheet
InvCleanFirst ==
    /\ fn = "inv_clean" /\ out.stage = "in"
    /\ out' = [stage |-> "once", first |-> CleanInvSheet(inp).ws]
    /\ UNCHANGED <<fn, inp, gvars>>

\* clean_investment_comps runs again over the sheet it left
InvCleanSecond ==
    /\ fn = "inv_clean" /\ out.stage = "once"
    /\ out' = [out EXCEPT !.stage = "twice"] @@ [second |-> CleanInvSheet(out.first).ws]
    /\ UNCHANGED <<fn, inp, gvars>>

\* _clean_row runs over the row
OccCleanFirst ==
    /\ fn = "occ_clean" /\ out.stage = "in"
    /\ out' = [stage |-> "once", first |-> [i \in DOMAIN inp |-> _clean_row(inp[i])]]
    /\ UNCHANGED <<fn, inp, gvars>>

\* _clean_row runs again over the row it left
OccCleanSecond ==
    /\ fn = "occ_clean" /\ out.stage = "once"
    /\ out' = [out EXCEPT !.stage = "twice"]
              @@ [second |-> [i \in DOMAIN out.first |-> _clean_row(out.first[i])]]
    /\ UNCHANGED <<fn, inp, gvars>>

\* the days of a month, as datetime() checks them
DaysIn(y, mo) ==
    IF mo \in {4, 6, 9, 11} THEN 30
    ELSE IF mo # 2 THEN 31
    ELSE IF y % 4 = 0 /\ (y % 100 # 0 \/ y % 400 = 0) THEN 29 ELSE 28

\* the date cell: "DD/MM/YYYY" becomes a date; a string that does not parse
\* stays a string
DateCell(v) ==
    LET parts == SplitOn(Strip(TextOr(v)), "/")
        d == DigitsVal(Strip(parts[1]))
        mo == DigitsVal(Strip(parts[2]))
        y == DigitsVal(Strip(parts[3]))
    IN IF /\ IsStr(v) /\ Strip(v.s) # "" /\ Len(parts) = 3
          /\ \A i \in 1..3 : IsDigits(Strip(parts[i]))
          /\ y \in 1..9999 /\ mo \in 1..12 /\ d \in 1..DaysIn(y, mo)
       THEN Date(y, mo, d)
       ELSE v

\* datetime.strptime(t[:10], "%Y-%m-%d"): the date as a number yyyymmdd, 0
\* where strptime raises ValueError
ParseYmd(t) ==
    LET parts == SplitOn(Mid(t, 1, 10), "-")
        y == DigitsVal(parts[1])
        mo == DigitsVal(parts[2])
        d == DigitsVal(parts[3])
    IN IF /\ Len(parts) = 3 /\ \A i \in 1..3 : IsDigits(parts[i])
          /\ Len(parts[1]) = 4 /\ Len(parts[2]) \in 1..2 /\ Len(parts[3]) \in 1..2
          /\ y >= 1 /\ mo \in 1..12 /\ d \in 1..DaysIn(y, mo)
       THEN y * 10000 + mo * 100 + d
       ELSE 0

\* a number with a leading zero below ten
TwoDigits(n) == IF n < 10 THEN "0" \o NatText(n) ELSE NatText(n)

\* strftime("%Y-%m-%d") of the date yyyymmdd (a four-digit year)
FormatYmd(n) ==
    NatText(n \div 10000) \o "-" \o TwoDigits((n \div 100) % 100) \o "-" \o TwoDigits(n % 100)

\* datetime.now() as a number yyyymmdd
TodayYmd == DateCell(Str(Today)).n

\* _clean_row, rule 7: comp_date from the lease start, or from the lease
\* start + 5 years for a term over 5 years without a review date;
\* datetime.replace(year=...) raises ValueError for a date that does not
\* exist
OccRule7(row) ==
    LET ls_dt == ParseYmd(Strip(TextOr(row.lease_start)))
        has_review == ~IsBlank(row.rent_review_date)
        term_years == CellRent(row.lease_term_years)
        review_dt == ls_dt + 50000
        five == Truthy(term_years) /\ term_years.n > 500 /\ ~has_review
    IN IF ~(~Truthy(row.comp_date) /\ Truthy(row.lease_start)) \/ ls_dt = 0
       THEN [row |-> row, raised |-> FALSE]
       ELSE IF five /\ (review_dt % 100) > DaysIn(review_dt \div 10000, (review_dt \div 100) % 100)
       THEN [row |-> row, raised |-> TRUE]
       ELSE IF five /\ review_dt <= TodayYmd
       THEN [row |-> [row EXCEPT !.comp_date = Str(FormatYmd(review_dt))], raised |-> FALSE]
       ELSE [row |-> [row EXCEPT !.comp_date = Str(FormatYmd(ls_dt))], raised |-> FALSE]

\* clean_occupational_comps, step 3: _clean_row on every row in turn; an
\* exception of _clean_row leaves the loop and the function
RECURSIVE CleanRowsFrom(_, _)
CleanRowsFrom(rows, i) ==
    IF i > Len(rows) THEN [rows |-> rows, exc |-> "none", reached |-> Len(rows)]
    ELSE LET r == OccRule7(_clean_row(rows[i]))
         IN IF r.raised THEN [rows |-> rows, exc |-> "ValueError", reached |-> i]
            ELSE CleanRowsFrom([rows EXCEPT ![i] = r.row], i + 1)

\* rows of the raw table with a lease start, a term, a review date
DatedOccRows ==
    {[size_sqft |-> None, rent_pa |-> Num(100000), rent_psf |-> None, notes |-> Str(""),
      lease_start |-> ls, lease_term_years |-> term, rent_review_date |-> rv,
      comp_date |-> None] :
        ls \in {None, Str("2019-03-25"), Str("2020-02-29"), Str("2024-2-29"), Str("n/a"),
                Str("2022-11-01 00:00:00")},
        term \in {Num(500), Num(1000)},
        rv \in {None, Str("2025-03-25")}}
    \cup {[size_sqft |-> None, rent_pa |-> Num(100000), rent_psf |-> None, notes |-> Str(""),
           lease_start |-> Str("2020-02-29"), lease_term_years |-> None,
           rent_review_date |-> None, comp_date |-> Str("2021-01-01")]}

\* the longest list of rows handed to the loop
MaxCleanRows == 2

InitCleanBatch ==
    /\ GatewayOff
    /\ fn = "occ_batch"
    /\ inp \in UNION {[1..n -> DatedOccRows] : n \in 1..MaxCleanRows}
    /\ out = [stage |-> "in"]

\* the row loop of clean_occupational_comps runs over the rows
OccCleanBatch ==
    /\ fn = "occ_batch" /\ out.stage = "in"
    /\ \E r \in {CleanRowsFrom(inp, 1)} :
         out' = [stage |-> "out", rows |-> r.rows, exc |-> r.exc, reached |-> r.reached]
    /\ UNCHANGED <<fn, inp, gvars>>

NextDerive ==
    \/ InvCleanFirst \/ InvCleanSecond \/ OccCleanFirst \/ OccCleanSecond
    \/ OccCleanBatch

SpecDerive == (InitDerive \/ InitCleanBatch) /\ [][NextDerive]_vars

---------------------------------------------------------------------------
(* The write gateway: mutators, retry policy, verification                 *)

\* excel_writer.MAX_RETRIES and RETRY_DELAY (seconds)
MAX_RETRIES == 3
RETRY_DELAY == 5

\* comps_cleaner.MAX_RETRIES
CLEANER_MAX_RETRIES == 3

\* the attempts and the settle delay of _verify_and_resave
VERIFY_ATTEMPTS == 3
VERIFY_DELAY == 5

RECURSIVE Pow2(_)
Pow2(n) == IF n = 0 THEN 1 ELSE 2 * Pow2(n - 1)

\* a retry delay that does not grow
RetryWait_flat(n) == RETRY_DELAY

\* _retry_write: wait = RETRY_DELAY * (2 ** attempt), in attempt n
RetryWait(n) == RETRY_DELAY * Pow2(n)

\* exception handling that lets errors other than a lock escape
RetryHandler_lock_only(kind, n, max_retries) ==
    IF kind = "PermissionError"
    THEN (IF n < max_retries - 1 THEN "sleep" ELSE "return_false")
    ELSE "raise"

\* _retry_write, the except clauses for an exception of kind
\* "PermissionError" or "Exception" raised in attempt n: sleep and go
\* round the loop again, return False, or let the exception propagate
RetryHandler_retry_all(kind, n, max_retries) ==
    IF n < max_retries - 1 THEN "sleep" ELSE "return_false"

RetryHandler(kind, n, max_retries) ==
    IF kind = "PermissionError"
    THEN (IF n < max_retries - 1 THEN "sleep" ELSE "return_false")
    ELSE "return_false"

\* put a row at position i of a sheet (i = Len + 1 appends)
PutRow(ws, i, row) == IF i > Len(ws) THEN Append(ws, row) ELSE [ws EXCEPT ![i] = row]

\* OccupationalCompsWriter._find_next_row: the first row with no source deal
Occ_find_next_row(ws) ==
    IF \E i \in 1..Len(ws) : ~Truthy(ws[i].source_deal)
    THEN FirstOf({i \in 1..Len(ws) : ~Truthy(ws[i].source_deal)})
    ELSE Len(ws) + 1

\* InvestmentCompsWriter._find_next_row: the first row with no address
Inv_find_next_row(ws) ==
    IF \E i \in 1..Len(ws) : ~Truthy(ws[i].address)
    THEN FirstOf({i \in 1..Len(ws) : ~Truthy(ws[i].address)})
    ELSE Len(ws) + 1

\* the cells of row i of a sheet, written or not
OccCells(ws, i) == IF i <= Len(ws) THEN ws[i] ELSE EmptyOccRow
InvCells(ws, i) == IF i <= Len(ws) THEN ws[i] ELSE EmptyInvRow

\* the one element of a singleton set
The(S) == CHOOSE v \in S : TRUE

\* OccupationalCompsWriter.append_comps._write, the loop body for one comp
\* once _find_duplicate_row has answered dup_row: st carries the sheet,
\* written_comps (which outlives the attempt) and the merge count
OccWriteRow(st, comp, dup_row) ==
    LET m == Occ_merge_into_row(st.ws[dup_row], comp)
        next_row == Occ_find_next_row(st.ws)
    IN IF dup_row # 0
       THEN [st EXCEPT !.ws = [st.ws EXCEPT ![dup_row] = m.row],
                       !.merged = @ + (IF m.fills > 0 THEN 1 ELSE 0)]
       ELSE [st EXCEPT !.ws = PutRow(st.ws, next_row,
                                     Occ_write_comp(OccCells(st.ws, next_row), comp, Today)),
                       !.written = Append(@, comp)]

OccWriteComp(st, comp) ==
    The({OccWriteRow(st, comp, dup_row) : dup_row \in {Occ_find_duplicate_row(st.ws, comp)}})

\* the loop of _write from comp k on
RECURSIVE OccWriteFrom(_, _, _)
OccWriteFrom(batch, k, st) ==
    IF k > Len(batch) THEN st
    ELSE The({OccWriteFrom(batch, k + 1, nx) : nx \in {OccWriteComp(st, batch[k])}})

\* append_comps._write(wb): the sheet after the mutator, written_comps, and
\* the mutator's result "len(written_comps) > 0 or merged > 0"
Occ_write(wb, batch, written_comps) ==
    LET st == The({OccWriteFrom(batch, 1, s0) :
                     s0 \in {[ws |-> wb, written |-> written_comps, merged |-> 0]}})
    IN [ws |-> st.ws, written |-> st.written, raised |-> FALSE,
        changes_made |-> Len(st.written) > 0 \/ st.merged > 0]

\* InvestmentCompsWriter.append_comps._write, the loop body for one comp
\* once _find_duplicate_row has answered dup_row (-1: its price comparison
\* raised)
InvWriteRow(st, comp, dup_row) ==
    LET m == Inv_merge_into_row(st.ws[dup_row], comp)
        next_row == Inv_find_next_row(st.ws)
    IN IF dup_row = -1 THEN [st EXCEPT !.raised = TRUE]
       ELSE IF dup_row # 0
       THEN [st EXCEPT !.ws = [st.ws EXCEPT ![dup_row] = m.row],
                       !.merged = @ + (IF m.fills > 0 THEN 1 ELSE 0)]
       ELSE [st EXCEPT !.ws = PutRow(st.ws, next_row,
                                     Inv_write_comp(InvCells(st.ws, next_row), comp)),
                       !.written = Append(@, comp)]

InvWriteComp(st, comp) ==
    The({InvWriteRow(st, comp, dup_row) : dup_row \in {Inv_find_duplicate_row(st.ws, comp)}})

\* the loop of _write from comp k on, left when a comparison raises
RECURSIVE InvWriteFrom(_, _, _)
InvWriteFrom(batch, k, st) ==
    IF k > Len(batch) \/ st.raised THEN st
    ELSE The({InvWriteFrom(batch, k + 1, nx) : nx \in {InvWriteComp(st, batch[k])}})

\* append_comps._write(wb) of the investment writer: count[0] is the length
\* of the sequence `count`, and outlives the attempt
Inv_write(wb, batch, count) ==
    LET st == The({InvWriteFrom(batch, 1, s0) :
                     s0 \in {[ws |-> wb, written |-> count, merged |-> 0, raised |-> FALSE]}})
    IN [ws |-> st.ws, written |-> st.written, raised |-> st.raised,
        changes_made |-> Len(st.written) > 0 \/ st.merged > 0]

\* the data rows _verify_and_resave counts: rows with a source deal
DataRows(ws) == Cardinality({i \in 1..Len(ws) : Truthy(ws[i].source_deal)})

\* _verify_and_resave, the rebuilt sheet: every cell of every data row set
\* to None, then the written comps rewritten from the first data row
Rebuild(ws, batch) ==
    [i \in 1..(IF Len(ws) > Len(batch) THEN Len(ws) ELSE Len(batch)) |->
        IF i <= Len(batch) THEN Occ_write_comp(EmptyOccRow, batch[i], Today)
        ELSE EmptyOccRow]

\* RawOccCompsDB.export_to_excel: the sheet row of a stored row
ExportRow(r) ==
    [c \in ColSet(OccCols) |->
        IF c \in OccNumCols THEN r[c] ELSE Str(TextOr(r[c]))]

---------------------------------------------------------------------------
(* Spec: one call through the write gateway, with a file that may be       *)
(* locked at any open, save or copy, and a sync client that may put the    *)
(* old file back after a write                                             *)

\* how often the sync client overwrites the file in one run
MaxRestore == 1

\* occupational records: two whose rows are in the store, a duplicate of one
\* of them that carries an extra figure, and a new one
StoredX == OccComp(Str("Bolt plc"), Str("Unit 3"), Num(500000), None)
StoredA == OccComp(Str("Acme Ltd"), Str("Unit 1"), Num(100000), None)
DupOfA == [OccComp(Str("ACME Limited"), None, Num(100400), None) EXCEPT !.size_sqft = Num(250000)]
NewB == OccComp(Str("Planetbloom"), Str("Unit 02"), None, Num(850))

OccStores ==
    {<<>>,
     <<Occ_write_comp(EmptyOccRow, StoredX, Today)>>,
     <<Occ_write_comp(EmptyOccRow, StoredX, Today), Occ_write_comp(EmptyOccRow, StoredA, Today)>>}

OccBatches == {<<>>, <<NewB>>, <<StoredA>>, <<DupOfA>>, <<DupOfA, NewB>>}

\* investment records: a stored one, a new one with a price and a yield (the
\* cleaner can derive its rent), a duplicate of the stored one that names the
\* vendor, and one whose price is the negative of the stored price
StoredP == InvComp(Str("1 High Street"), Num(3000), Str("Q2 2025"))
NewQ == [InvComp(Str("9 Mill Lane"), Num(3000), Str("2026 Q1")) EXCEPT !.yield_niy = Num(65000)]
DupOfP == [InvComp(Str("1 High St"), Num(3000), Str("2025 Q1")) EXCEPT !.vendor = Str("Vendor Ltd")]
NegP == InvComp(Str("1 High St"), Num(-3000), Str("2025 Q1"))
\* the stored comp again, from a source that also gives its yield
DupOfPY == [DupOfP EXCEPT !.yield_niy = Num(65000)]
\* a comp the extraction returned without an address (item.get("address", ""))
NoAddr == InvComp(Str(""), Num(9000), Str("2026 Q1"))

InvStores == {<<>>, <<Inv_write_comp(EmptyInvRow, StoredP)>>}

InvBatches == {<<>>, <<NewQ>>, <<DupOfP>>, <<NegP>>, <<NoAddr, NewQ>>, <<DupOfPY>>}

\* the raw table, in id order, and the viewing copy before the export
DbTables == {<<>>, <<Stored(StoredA, 1)>>, <<Stored(StoredA, 1), Stored(NewB, 2)>>}

ViewStores == {<<>>, <<ExportRow(Stored(StoredX, 1))>>}

Init ==
    /\ fn = "gateway" /\ inp = <<>> /\ out = [stage |-> "in"]
    /\ file \in {"occ", "inv", "view"}
    /\ live \in CASE file = "occ" -> OccStores [] file = "inv" -> InvStores
                  [] OTHER -> ViewStores
    /\ before = live
    /\ pc = "idle" /\ op = "none" /\ comps = <<>> /\ workbook = NoWorkbook /\ written = <<>>
    /\ attempt = 0
    /\ waits = <<>> /\ rw = "none" /\ last = NoAttempt /\ fsops = <<>>
    /\ vattempt = 0 /\ vlog = <<>> /\ cattempt = 0 /\ clog = <<>> /\ restores = 0 /\ extw = 0
    /\ ret = -1 /\ exc = "none" /\ tmp = NoTmp

\* OccupationalCompsWriter.append_comps up to the call of _retry_write
OccAppendComps ==
    /\ pc = "idle" /\ file = "occ"
    /\ \E batch \in OccBatches :
         /\ comps' = batch
         /\ IF batch = <<>> THEN pc' = "done" /\ ret' = 0
            ELSE pc' = "write" /\ ret' = ret
    /\ op' = "occ_append"
    /\ UNCHANGED <<fn, inp, out, workbook, file, live, before, written, attempt, waits, rw, last,
                   fsops, vattempt, vlog, cattempt, clog, tmp, restores, extw, exc>>

\* InvestmentCompsWriter.append_comps up to the call of _retry_write
InvAppendComps ==
    /\ pc = "idle" /\ file = "inv"
    /\ \E batch \in InvBatches :
         /\ comps' = batch
         /\ IF batch = <<>> THEN pc' = "done" /\ ret' = 0
            ELSE pc' = "write" /\ ret' = ret
    /\ op' = "inv_append"
    /\ UNCHANGED <<fn, inp, out, workbook, file, live, before, written, attempt, waits, rw, last,
                   fsops, vattempt, vlog, cattempt, clog, tmp, restores, extw, exc>>

\* write_fn(wb) for the call in progress
write_fn(book) ==
    IF op = "occ_append" THEN Occ_write(book, comps, written) ELSE Inv_write(book, comps, written)

\* _retry_write returns `result`; append_comps goes on to its post-write
\* step when any comp was counted as written, and returns the count
\* otherwise
Returned(result) ==
    /\ rw' = result
    /\ IF written # <<>>
       THEN pc' = (IF op = "occ_append" THEN "verify" ELSE "clean") /\ ret' = ret
       ELSE pc' = "done" /\ ret' = 0

\* an exception of `kind` in the try block of _retry_write, after the
\* mutator (if it ran) reported changes_made
Except(kind, changes_made) ==
    /\ last' = [kind |-> kind, changes_made |-> changes_made, copied |-> FALSE]
    /\ tmp' = NoTmp
    /\ CASE RetryHandler(kind, attempt, MAX_RETRIES) = "sleep" ->
               /\ waits' = Append(waits, RetryWait(attempt))
               /\ attempt' = attempt + 1
               /\ pc' = "write"
               /\ UNCHANGED <<rw, ret, exc>>
         [] RetryHandler(kind, attempt, MAX_RETRIES) = "return_false" ->
               /\ Returned("false")
               /\ UNCHANGED <<waits, attempt, exc>>
         [] OTHER ->
               /\ rw' = "raised" /\ exc' = kind /\ pc' = "done"
               /\ UNCHANGED <<waits, attempt, ret>>
    /\ UNCHANGED <<fn, inp, out, file, live, before, op, comps, workbook, written, fsops,
                   vattempt, vlog, cattempt, clog, restores, extw>>

\* _retry_write, an attempt in which load_workbook fails
RwLoadFails ==
    /\ pc = "write"
    /\ \E kind \in {"PermissionError", "Exception"} : Except(kind, FALSE)

\* _retry_write, an attempt in which the workbook is loaded from the live
\* file and write_fn runs on it; what it appends to written_comps stays
RwMutate ==
    /\ pc = "write"
    /\ \E r \in {write_fn(live)} :
         /\ workbook' = [ws |-> r.ws, changes_made |-> r.changes_made, raised |-> r.raised]
         /\ written' = r.written
    /\ pc' = "save"
    /\ UNCHANGED <<fn, inp, out, file, live, before, op, comps, attempt, waits, rw, last,
                   fsops, vattempt, vlog, cattempt, clog, tmp, restores, extw, ret, exc>>

\* the mutator raised
RwMutatorRaises ==
    /\ pc = "save" /\ workbook.raised
    /\ Except("Exception", FALSE)

RwNoChanges_saves ==
    /\ pc = "save" /\ ~workbook.raised /\ ~workbook.changes_made
    /\ tmp' = [exists |-> TRUE, ws |-> workbook.ws]
    /\ pc' = "copy"
    /\ UNCHANGED <<fn, inp, out, file, live, before, op, comps, workbook, written, attempt,
                   waits, rw, last, fsops, vattempt, vlog, cattempt, clog, restores, extw, ret, exc>>

\* the mutator reported no changes: nothing is saved
RwNoChanges ==
    /\ pc = "save" /\ ~workbook.raised /\ ~workbook.changes_made
    /\ last' = NoAttempt
    /\ Returned("false")
    /\ UNCHANGED <<fn, inp, out, file, live, before, op, comps, workbook, written, attempt,
                   waits, fsops, vattempt, vlog, cattempt, clog, tmp, restores, extw, exc>>

\* wb.save(tmp_path) fails
RwSaveFails ==
    /\ pc = "save" /\ ~workbook.raised /\ workbook.changes_made
    /\ \E kind \in {"PermissionError", "Exception"} : Except(kind, TRUE)

\* the workbook is saved to a temp file in the system temp directory
RwSerialized ==
    /\ pc = "save" /\ ~workbook.raised /\ workbook.changes_made
    /\ tmp' = [exists |-> TRUE, ws |-> workbook.ws]
    /\ pc' = "copy"
    /\ UNCHANGED <<fn, inp, out, file, live, before, op, comps, workbook, written, attempt,
                   waits, rw, last, fsops, vattempt, vlog, cattempt, clog, restores, extw, ret, exc>>

\* the copy over the live path fails: the file is locked or cannot be
\* opened for writing; the finally clause removes the temp file
RwCopyFails ==
    /\ pc = "copy"
    /\ \E kind \in {"PermissionError", "Exception"} : Except(kind, TRUE)

\* how often another writer changes the file in one run
MaxExternal == 1

\* the row another writer adds to the file
ExternalRow ==
    IF file = "inv"
    THEN Inv_write_comp(EmptyInvRow, InvComp(Str("5 Dock Road"), Num(7700), Str("2026 Q1")))
    ELSE Occ_write_comp(EmptyOccRow, OccComp(Str("Zeta Ltd"), Str("Unit 9"), Num(42000), None),
                        Today)

\* the sheet holds the row
HasRow(ws, row) == \E i \in DOMAIN ws : ws[i] = row

\* a copy that puts an outside row back
RwSaved_keeps_external ==
    /\ pc = "copy"
    /\ live' = IF HasRow(live, ExternalRow) /\ ~HasRow(tmp.ws, ExternalRow)
               THEN Append(tmp.ws, ExternalRow) ELSE tmp.ws
    /\ tmp' = NoTmp
    /\ fsops' = Append(fsops, [how |-> "copy", tmpdir |-> "system"])
    /\ last' = [kind |-> "none", changes_made |-> TRUE, copied |-> TRUE]
    /\ Returned("true")
    /\ UNCHANGED <<fn, inp, out, file, before, op, comps, workbook, written, attempt, waits,
                   vattempt, vlog, cattempt, clog, restores, extw, exc>>

\* the temp file is copied over the live path and removed
RwSaved ==
    /\ pc = "copy"
    /\ live' = tmp.ws
    /\ tmp' = NoTmp
    /\ fsops' = Append(fsops, [how |-> "copy", tmpdir |-> "system"])
    /\ last' = [kind |-> "none", changes_made |-> TRUE, copied |-> TRUE]
    /\ Returned("true")
    /\ UNCHANGED <<fn, inp, out, file, before, op, comps, workbook, written, attempt, waits,
                   vattempt, vlog, cattempt, clog, restores, extw, exc>>

\* the sync client replaces the file just written by the content it had
\* before the call
ExternalRestore ==
    /\ pc = "verify" /\ restores < MaxRestore /\ live # before
    /\ live' = before
    /\ restores' = restores + 1
    /\ UNCHANGED <<fn, inp, out, workbook, file, before, pc, op, comps, written, attempt, waits, rw,
                   last, fsops, vattempt, vlog, cattempt, clog, tmp, extw, ret, exc>>

\* another writer (a colleague's Excel, the sync client) saves the file with
\* one more row while _retry_write holds its workbook: after load_workbook
\* and before shutil.copy2
ExternalWrite ==
    /\ pc \in {"save", "copy"} /\ extw < MaxExternal
    /\ live' = Append(live, ExternalRow)
    /\ extw' = extw + 1
    /\ UNCHANGED <<fn, inp, out, workbook, file, before, pc, op, comps, written, attempt, waits,
                   rw, last, fsops, vattempt, vlog, cattempt, clog, tmp, restores, ret, exc>>

\* the row holds every non-blank cell of the row `w`
RowHolds(row, w) == \A c \in DOMAIN w : ~IsBlank(w[c]) => row[c] = w[c]

\* every comp of the batch has its row in the sheet
RowsPresent(ws, batch) ==
    \A k \in DOMAIN batch :
        \E j \in DOMAIN ws : RowHolds(ws[j], Occ_write_comp(EmptyOccRow, batch[k], Today))

\* what a verification attempt saw and did
VerifyEntry(verdict) ==
    [slept |-> VERIFY_DELAY, data_rows |-> DataRows(live), expected |-> Len(written),
     present |-> RowsPresent(live, written), verdict |-> verdict]

\* _verify_and_resave, the end of an attempt that did not return: the next
\* attempt, or the end of the loop and the return of append_comps
VerifyNext ==
    /\ vattempt' = vattempt + 1
    /\ IF vattempt + 1 = VERIFY_ATTEMPTS
       THEN pc' = "done" /\ ret' = Len(written)
       ELSE pc' = pc /\ ret' = ret

\* _verify_and_resave, an attempt whose re-read fails
VerifyLoadFails ==
    /\ pc = "verify"
    /\ vlog' = Append(vlog, [VerifyEntry("failed") EXCEPT !.data_rows = -1])
    /\ VerifyNext
    /\ UNCHANGED <<fn, inp, out, workbook, file, live, before, op, comps, written, attempt, waits,
                   rw, last, fsops, cattempt, clog, tmp, restores, extw, exc>>

\* _verify_and_resave, an attempt that counts at least `expected` data rows
VerifyOk ==
    /\ pc = "verify"
    /\ DataRows(live) >= Len(written)
    /\ vlog' = Append(vlog, VerifyEntry("verified"))
    /\ pc' = "done" /\ ret' = Len(written)
    /\ UNCHANGED <<fn, inp, out, workbook, file, live, before, op, comps, written, attempt, waits,
                   rw, last, fsops, vattempt, cattempt, clog, tmp, restores, extw, exc>>

\* _verify_and_resave, an attempt that counts fewer: the sheet is rebuilt
\* and saved through a temp file, or the save fails
VerifyResave ==
    /\ pc = "verify"
    /\ DataRows(live) < Len(written)
    /\ \E saved \in BOOLEAN :
         IF saved
         THEN /\ live' = Rebuild(live, written)
              /\ fsops' = Append(fsops, [how |-> "copy", tmpdir |-> "system"])
              /\ vlog' = Append(vlog, VerifyEntry("resaved"))
         ELSE /\ UNCHANGED <<live, fsops>>
              /\ vlog' = Append(vlog, VerifyEntry("failed"))
    /\ VerifyNext
    /\ UNCHANGED <<fn, inp, out, workbook, file, before, op, comps, written, attempt, waits, rw,
                   last, cattempt, clog, tmp, restores, extw, exc>>

\* clean_investment_comps, an attempt in which load_workbook or the save
\* fails: a lock is retried, anything else ends the pass; append_comps then
\* returns count[0]
CleanFails ==
    /\ pc = "clean"
    /\ \E kind \in {"PermissionError", "Exception"}, at \in {"load", "save"} :
         /\ at = "save" => CleanInvSheet(live).cells_filled > 0
         /\ clog' = Append(clog, kind)
         /\ IF kind = "PermissionError" /\ cattempt < CLEANER_MAX_RETRIES - 1
            THEN cattempt' = cattempt + 1 /\ pc' = pc /\ ret' = ret
            ELSE cattempt' = cattempt /\ pc' = "done" /\ ret' = Len(written)
    /\ UNCHANGED <<fn, inp, out, workbook, file, live, before, op, comps, written, attempt, waits,
                   rw, last, tmp, fsops, vattempt, vlog, restores, extw, exc>>

\* clean_investment_comps, an attempt that finds nothing to derive
CleanNoGaps ==
    /\ pc = "clean"
    /\ CleanInvSheet(live).cells_filled = 0
    /\ pc' = "done" /\ ret' = Len(written)
    /\ UNCHANGED <<fn, inp, out, workbook, file, live, before, op, comps, written, attempt, waits,
                   rw, last, fsops, vattempt, vlog, cattempt, clog, tmp, restores, extw, exc>>

\* clean_investment_comps, an attempt that derives cells and saves the
\* workbook to the live path
CleanSaved ==
    /\ pc = "clean"
    /\ CleanInvSheet(live).cells_filled > 0
    /\ live' = CleanInvSheet(live).ws
    /\ fsops' = Append(fsops, [how |-> "save", tmpdir |-> "none"])
    /\ pc' = "done" /\ ret' = Len(written)
    /\ UNCHANGED <<fn, inp, out, workbook, file, before, op, comps, written, attempt, waits, rw,
                   last, vattempt, vlog, cattempt, clog, tmp, restores, extw, exc>>

\* RawOccCompsDB.export_to_excel: the viewing copy is rebuilt from the raw
\* table, saved to a temp file in the directory of the live file and copied
\* over it; a failure of the save or the copy is raised
ExportToExcel ==
    /\ pc = "idle" /\ file = "view"
    /\ \E rows \in DbTables, outcome \in {"ok", "PermissionError", "Exception"} :
         /\ comps' = rows
         /\ IF outcome = "ok"
            THEN /\ live' = [i \in DOMAIN rows |-> ExportRow(rows[i])]
                 /\ fsops' = Append(fsops, [how |-> "copy", tmpdir |-> "live_dir"])
                 /\ ret' = Len(rows) /\ exc' = exc
            ELSE /\ exc' = outcome
                 /\ UNCHANGED <<live, fsops, ret>>
    /\ op' = "export" /\ pc' = "done"
    /\ UNCHANGED <<fn, inp, out, workbook, file, before, written, attempt, waits, rw, last,
                   vattempt, vlog, cattempt, clog, tmp, restores, extw>>

Next ==
    \/ OccAppendComps \/ InvAppendComps
    \/ RwLoadFails \/ RwMutate \/ RwMutatorRaises \/ RwNoChanges \/ RwSaveFails
    \/ RwSerialized \/ RwCopyFails \/ RwSaved
    \/ ExternalRestore \/ ExternalWrite
    \/ VerifyLoadFails \/ VerifyOk \/ VerifyResave
    \/ CleanFails \/ CleanNoGaps \/ CleanSaved
    \/ ExportToExcel

Spec == Init /\ [][Next]_vars

---------------------------------------------------------------------------
(* Properties of the write gateway                                         *)

\* the call is one of the two append_comps
AppendCall == op \in {"occ_append", "inv_append"}

\* the data rows of the live file: rows with a source deal in the
\* occupational sheet, rows with an address in the investment sheet
StoreRows(ws) ==
    IF file = "inv" THEN Cardinality({i \in DOMAIN ws : Truthy(ws[i].address)})
    ELSE DataRows(ws)

\* _retry_write gave up on a locked file
LockExhausted == rw = "false" /\ last.kind = "PermissionError"

\* C4: while the sync client leaves the file alone, every row that was in
\* the store before an append_comps call is still in its place afterwards,
\* with each of its non-blank cells unchanged
ExistingRowsKept ==
    (AppendCall /\ restores = 0) =>
        \A i \in DOMAIN before : i <= Len(live) /\ RowHolds(live[i], before[i])

\* C5: when the sync client has replaced the file after the swap of a
\* successful write, a verification attempt reports "verified" only if the
\* rows just written are in the file it read
VerifiedOnlyWhenPresent ==
    (rw = "true" /\ restores > 0) =>
        \A i \in DOMAIN vlog : vlog[i].verdict = "verified" => vlog[i].present

NeverSavedInPlace ==
    \A i \in DOMAIN fsops : fsops[i] = [how |-> "copy", tmpdir |-> "system"]

\* C9: while the sync client leaves the file alone, append_comps returns the
\* number of data rows the call added to the live file
ReturnsPersistedCount ==
    (pc = "done" /\ AppendCall /\ restores = 0) => ret = StoreRows(live) - StoreRows(before)

\* C10: no exception leaves _retry_write; it returns false whenever its last
\* attempt failed at the open, in the mutator, at the save or at the copy,
\* and true only when the mutator reported changes and the copy over the
\* live path was made
WriteFailureReported ==
    /\ rw # "raised" /\ (AppendCall => exc = "none")
    /\ rw = "true" => last.changes_made /\ last.copied /\ workbook.changes_made /\ fsops # <<>>
    /\ (rw # "none" /\ last.kind # "none") => rw = "false"
    /\ (rw # "none" /\ ~workbook.changes_made) => rw = "false"

\* a run in which the copy failed with an error that is not a lock, after the
\* mutator had reported changes
SaveErrorReported ==
    /\ rw = "false" /\ last.kind = "Exception" /\ last.changes_made
    /\ pc \in {"verify", "clean"}

-----------------------------------------------------------------------------
\* Only lock contention is retried

\* C11: an attempt of _retry_write, or of clean_investment_comps, that fails
\* with an error other than PermissionError is the last one: the call has
\* returned its failure result, no later attempt starts, and neither the
\* attempt counter nor the mutated workbook changes afterwards.
OnlyLockErrorRetried ==
    /\ [](/\ last.kind = "Exception" => rw = "false" /\ pc \notin {"write", "save", "copy"}
          /\ \A i \in DOMAIN clog :
                clog[i] = "Exception" => i = Len(clog) /\ pc = "done")
    /\ [][last.kind = "Exception" => UNCHANGED <<attempt, waits, workbook, last, rw>>]_vars
    /\ [][clog # <<>> /\ clog[Len(clog)] = "Exception" => UNCHANGED <<cattempt, clog, tmp, live>>]_vars

\* the first attempt failed with another error and the call returned at once
OtherErrorOnFirstAttempt ==
    /\ last.kind = "Exception" /\ attempt = 0 /\ waits = <<>>
    /\ rw = "false" /\ pc = "done"

-----------------------------------------------------------------------------
\* Step order of one attempt of _retry_write

\* the call is inside an attempt of _retry_write
InAttempt == pc \in {"write", "save", "copy"}

\* a step of the call itself, not of the other writer
OwnStep == extw' = extw

\* C12: within an attempt of _retry_write the call changes the live file
\* only in the copy step, after the workbook was loaded, the mutator
\* returned true and the workbook was saved to the temp file, and the live
\* file becomes what was serialized; after a mutator that returned false
\* nothing is written to a temp file or to the live path and _retry_write
\* returns false; a failed save to the temp file leaves the live file as it
\* was.
AttemptStepOrder ==
    /\ [][OwnStep /\ InAttempt /\ (live' # live \/ fsops' # fsops) =>
            /\ pc = "copy" /\ tmp.exists /\ tmp.ws = workbook.ws
            /\ workbook.changes_made /\ ~workbook.raised
            /\ live' = tmp.ws]_vars
    /\ [][tmp'.exists => pc \in {"save", "copy"} /\ workbook.changes_made /\ ~workbook.raised]_vars
    /\ [][OwnStep /\ pc = "save" /\ ~workbook.raised /\ ~workbook.changes_made =>
            live' = live /\ fsops' = fsops /\ tmp' = NoTmp /\ rw' = "false"]_vars
    /\ [][OwnStep /\ pc = "save" /\ pc' # "copy" => live' = live /\ fsops' = fsops]_vars

\* an attempt went through all its steps and changed the live file
AttemptCopied ==
    /\ last.copied /\ rw = "true" /\ live = workbook.ws /\ live # before
    /\ fsops = <<[how |-> "copy", tmpdir |-> "system"]>>

-----------------------------------------------------------------------------
\* Rows created by a batch

\* the rows of a sheet that hold anything
UsedRows(ws) ==
    Cardinality({i \in DOMAIN ws : \E c \in DOMAIN ws[i] : Populated(ws[i][c])})

\* the mutator of the first attempt of an append_comps call has run over
\* the whole batch
BatchApplied ==
    AppendCall /\ pc = "save" /\ attempt = 0 /\ ~workbook.raised

\* C13: when the mutator of append_comps has gone through a batch, the sheet
\* holds as many more rows as there were comps for which no duplicate row
\* was found (the comps counted as written), so a comp whose duplicate was
\* found added no row, whether its merge filled fields or not
RowsGrowByNewComps ==
    BatchApplied => UsedRows(workbook.ws) = UsedRows(live) + Len(written)

\* the row a record inserted as new is written as
InsertedAs(comp) ==
    IF op = "occ_append" THEN Occ_write_comp(EmptyOccRow, comp, Today)
    ELSE Inv_write_comp(EmptyInvRow, comp)

\* a row still holds an inserted record: every cell the insert populated
\* has the value the insert gave it
HoldsRecord(row, comp) ==
    \A c \in DOMAIN row : Populated(InsertedAs(comp)[c]) => row[c] = InsertedAs(comp)[c]

\* C28 as stated: when the mutator of append_comps has gone through a
\* batch, every record it inserted as new occupies a row of its own, the
\* records with a blank identity column included: the inserted records can
\* be assigned to distinct rows that hold them
InsertedRowsDistinct ==
    BatchApplied =>
        \E f \in [DOMAIN written -> DOMAIN workbook.ws] :
            /\ \A i, j \in DOMAIN written : i # j => f[i] # f[j]
            /\ \A i \in DOMAIN written : HoldsRecord(workbook.ws[f[i]], written[i])

\* the same for the batches in which every record names its identity column
InsertedRowsDistinctWhenNamed ==
    BatchApplied /\ (\A i \in DOMAIN comps :
                        Truthy(IF op = "occ_append" THEN comps[i].source_deal
                               ELSE comps[i].address)) =>
        \E f \in [DOMAIN written -> DOMAIN workbook.ws] :
            /\ \A i, j \in DOMAIN written : i # j => f[i] # f[j]
            /\ \A i \in DOMAIN written : HoldsRecord(workbook.ws[f[i]], written[i])

-----------------------------------------------------------------------------
\* Gaps filled by a merge

\* the fields of the duplicate record that the kept row has a column for
RecordFields == DOMAIN inp.comp \cap DOMAIN inp.kept

\* the value a field of the record has as a cell of the kept row
AsCell(c, v) ==
    IF fn = "inv_merge" /\ c \in {"yield_niy", "reversionary_yield"} THEN YieldCell(v) ELSE v

\* the gaps of the kept row that the duplicate can fill
Gaps == {c \in RecordFields : ~Populated(inp.kept[c]) /\ Populated(inp.comp[c])}

\* C14: after a merge by any of the three implementations, every field that
\* was blank on the kept row and is non-blank on the duplicate (entry type,
\* source deal and source file included) holds the duplicate's value, and
\* the returned count is the number of those fields
MergeFillsEveryGap ==
    MergeRan =>
        /\ \A c \in Gaps : out.row[c] = AsCell(c, inp.comp[c])
        /\ out.fills = Cardinality(Gaps)

-----------------------------------------------------------------------------
(* The pipeline writer: PipelineWriter._do_append on the Intros sheet       *)

\* PipelineWriter.COLUMNS, B..V
PipeCols ==
    <<"date", "agent", "asset_name", "country", "town", "address", "classification",
      "area_acres", "area_sqft", "rent_pa", "rent_psf", "asking_price", "net_yield",
      "reversionary_yield", "capval_psf", "status", "considered", "initial_irr",
      "brochure_stored", "brochure_scraped", "comment">>

EmptyPipeRow == [c \in ColSet(PipeCols) |-> None]

\* excel_writer._is_town_match: empty and multi-location towns are wildcards
_is_town_match(town_a, town_b) ==
    LET a == Lower(Strip(town_a))
        b == Lower(Strip(town_b))
    IN \/ a = "" \/ b = ""
       \/ Mid(a, 1, 5) = "multi" \/ Mid(b, 1, 5) = "multi"
       \/ a = b

\* the order of str comparison on normalised words
CharOrder == "0123456789_abcdefghijklmnopqrstuvwxyz"
CharOrd(c) == CHOOSE i \in 1..Len(CharOrder) : Ch(CharOrder, i) = c

RECURSIVE StrLess(_, _)
StrLess(a, b) ==
    IF b = "" THEN FALSE
    ELSE IF a = "" THEN TRUE
    ELSE IF Head(a) = Head(b) THEN StrLess(Tail(a), Tail(b))
    ELSE CharOrd(Head(a)) < CharOrd(Head(b))

\* sorted(words)
RECURSIVE Sorted(_)
Sorted(S) ==
    IF S = {} THEN <<>>
    ELSE LET w == CHOOSE x \in S : \A y \in S \ {x} : StrLess(x, y)
         IN <<w>> \o Sorted(S \ {w})

\* excel_writer.is_deal_match, the first component of its result
is_deal_match(name_a, town_a, postcode_a, name_b, town_b, postcode_b) ==
    LET norm_a == _normalize_name(name_a)
        norm_b == _normalize_name(name_b)
        pc_a == Upper(Strip(postcode_a))
        pc_b == Upper(Strip(postcode_b))
        shorter_norm == IF Len(norm_a) <= Len(norm_b) THEN norm_a ELSE norm_b
        words_a == _significant_words(name_a)
        words_b == _significant_words(name_b)
        sig_a == IF words_a # {} THEN Join(Sorted(words_a)) ELSE norm_a
        sig_b == IF words_b # {} THEN Join(Sorted(words_b)) ELSE norm_b
    IN /\ norm_a # "" /\ norm_b # ""
       /\ \/ norm_a = norm_b /\ _is_town_match(town_a, town_b)
          \/ pc_a # "" /\ pc_b # "" /\ pc_a = pc_b
          \/ Len(Split(shorter_norm)) >= 2
               /\ (Contains(norm_b, norm_a) \/ Contains(norm_a, norm_b))
          \/ WordOverlap(words_a, words_b)
          \/ _is_town_match(town_a, town_b) /\ sig_a # "" /\ sig_b # ""
               /\ RatioAtLeast(sig_a, sig_b, 65)

\* existing_addr.split(",")[-1].strip()
RECURSIVE LastPart(_)
LastPart(t) ==
    IF InText(",", t) THEN LastPart(Tail(t)) ELSE Strip(t)

IsUpperCh(c) == c # "" /\ InText(c, UpperAlpha)
IsDigitCh(c) == c # "" /\ InText(c, Digits)

\* the spaces of t from position i on
RECURSIVE SpaceRun(_, _)
SpaceRun(t, i) == IF Mid(t, i, i) = " " THEN 1 + SpaceRun(t, i + 1) ELSE 0

\* [A-Z]{1,2}\d[\dA-Z]?\s*\d[A-Z]{2} matched at position i of t with n
\* leading letters and, where opt = 1, the optional third character: the
\* length of the match, 0 for none
PostcodeLen(t, i, n, opt) ==
    LET d == i + n
        sp == d + 1 + opt
        k == SpaceRun(t, sp)
        e == sp + k
    IN IF /\ \A j \in i..(d - 1) : IsUpperCh(Mid(t, j, j))
          /\ IsDigitCh(Mid(t, d, d))
          /\ opt = 1 => (IsDigitCh(Mid(t, d + 1, d + 1)) \/ IsUpperCh(Mid(t, d + 1, d + 1)))
          /\ IsDigitCh(Mid(t, e, e))
          /\ IsUpperCh(Mid(t, e + 1, e + 1)) /\ IsUpperCh(Mid(t, e + 2, e + 2))
       THEN e + 3 - i ELSE 0

\* the match at position i, in the order the regex engine tries
PostcodeAt(t, i) ==
    IF PostcodeLen(t, i, 2, 1) > 0 THEN PostcodeLen(t, i, 2, 1)
    ELSE IF PostcodeLen(t, i, 2, 0) > 0 THEN PostcodeLen(t, i, 2, 0)
    ELSE IF PostcodeLen(t, i, 1, 1) > 0 THEN PostcodeLen(t, i, 1, 1)
    ELSE PostcodeLen(t, i, 1, 0)

\* re.search of the postcode pattern in t: group(0), "" for no match
RECURSIVE PostcodeFrom(_, _)
PostcodeFrom(t, i) ==
    IF i > Len(t) THEN ""
    ELSE IF PostcodeAt(t, i) > 0 THEN Mid(t, i, i + PostcodeAt(t, i) - 1)
    ELSE PostcodeFrom(t, i + 1)

\* PipelineWriter._is_duplicate, from data row `row` on: the matching row
\* (1 = DATA_START_ROW), 0 for (False, "")
RECURSIVE PipeFindFrom(_, _, _)
PipeFindFrom(ws, deal, row) ==
    IF row > Len(ws) THEN 0
    ELSE LET existing_name == Strip(TextOr(ws[row].asset_name))
             existing_town == Strip(TextOr(ws[row].town))
             existing_addr == Strip(TextOr(ws[row].address))
             existing_postcode ==
                 IF existing_addr = "" THEN ""
                 ELSE PostcodeFrom(Upper(LastPart(existing_addr)), 1)
         IN IF existing_name = "" THEN PipeFindFrom(ws, deal, row + 1)
            ELSE IF is_deal_match(TextOr(deal.asset_name), TextOr(deal.town),
                                  Upper(Strip(TextOr(deal.postcode))),
                                  existing_name, existing_town, existing_postcode)
                 THEN row
            ELSE PipeFindFrom(ws, deal, row + 1)

_is_duplicate(ws, deal) ==
    IF Strip(TextOr(deal.asset_name)) = "" THEN 0 ELSE PipeFindFrom(ws, deal, 1)

\* PipelineWriter._find_next_row: the first row with no asset name
Pipe_find_next_row(ws) ==
    IF \E i \in 1..Len(ws) : ~Truthy(ws[i].asset_name)
    THEN FirstOf({i \in 1..Len(ws) : ~Truthy(ws[i].asset_name)})
    ELSE Len(ws) + 1

\* str.strip(", ")
RECURSIVE StripCommaSpace(_)
StripCommaSpace(t) ==
    IF t # "" /\ Head(t) \in {",", " "} THEN StripCommaSpace(Tail(t))
    ELSE IF t # "" /\ Ch(t, Len(t)) \in {",", " "}
         THEN StripCommaSpace(SubSeq(t, 1, Len(t) - 1))
    ELSE t

\* the address cell: the postcode is appended unless the address holds it
AddressCell(deal) ==
    LET addr == TextOr(deal.address)
        postcode == TextOr(deal.postcode)
    IN Str(IF postcode # "" /\ ~Contains(addr, postcode)
           THEN StripCommaSpace(addr \o ", " \o postcode)
           ELSE addr)

\* the cells _do_append writes for a deal on a row holding `old`
Pipe_write_deal(old, deal, has_brochure, brochure_scraped, comment) ==
    [c \in ColSet(PipeCols) |->
        IF c = "date" THEN DateCell(deal.date)
        ELSE IF c \in {"agent", "asset_name", "country", "town", "classification"} THEN deal[c]
        ELSE IF c = "address" THEN AddressCell(deal)
        ELSE IF c \in {"area_acres", "area_sqft", "rent_pa", "rent_psf", "asking_price",
                       "capval_psf"}
             THEN (IF IsNone(deal[c]) THEN old[c] ELSE deal[c])
        ELSE IF c \in {"net_yield", "reversionary_yield"}
             THEN (IF IsNone(deal[c]) THEN old[c] ELSE YieldCell(deal[c]))
        ELSE IF c = "status" THEN Str("New")
        ELSE IF c = "considered" THEN Str("No")
        ELSE IF c = "brochure_stored" THEN Str(IF has_brochure THEN "Yes" ELSE "No")
        ELSE IF c = "brochure_scraped" THEN Str(IF brochure_scraped THEN "Yes" ELSE "No")
        ELSE IF c = "comment" /\ comment # "" THEN Str(comment)
        ELSE old[c]]

\* PipelineWriter._do_append: the sheet afterwards and the returned flag
_do_append(ws, deal, has_brochure, brochure_scraped, comment) ==
    LET next_row == Pipe_find_next_row(ws)
    IN IF _is_duplicate(ws, deal) # 0 THEN [ws |-> ws, changes_made |-> FALSE]
       ELSE [ws |-> PutRow(ws, next_row,
                           Pipe_write_deal(IF next_row <= Len(ws) THEN ws[next_row]
                                           ELSE EmptyPipeRow,
                                           deal, has_brochure, brochure_scraped, comment)),
             changes_made |-> TRUE]

---------------------------------------------------------------------------
(* SpecPipeline: _do_append applied to a sheet and an incoming deal        *)

\* a DealExtraction
Deal(name, town, postcode, area_sqft) ==
    [date |-> Str("01/02/2026"), agent |-> Str("Agent & Co"), asset_name |-> Str(name),
     country |-> Str("England"), town |-> Str(town), address |-> Str("1 Mill Rd"),
     postcode |-> Str(postcode), classification |-> Str(""),
     area_acres |-> None, area_sqft |-> area_sqft, rent_pa |-> None, rent_psf |-> None,
     asking_price |-> None, net_yield |-> None, reversionary_yield |-> None,
     capval_psf |-> None]

\* incoming deals
DealPool ==
    {Deal(name, town, postcode, area) :
        name \in {"Trafford Point", "trafford point.", "Trafford Pointe", "Orion Works", ""},
        town \in {"Manchester", "Leeds", ""},
        postcode \in {"", "M17 1AB", "LS1 2CD"},
        area \in {None, Num(5000000)}}

\* the deals already on the sheet
PipeStored ==
    <<Deal("Trafford Point", "Manchester", "M17 1AB", None),
      Deal("Calder Yard", "Leeds", "", None)>>

\* sheets written by _do_append
PipeStores ==
    {[i \in 1..n |-> Pipe_write_deal(EmptyPipeRow, PipeStored[i], FALSE, FALSE, "")] :
        n \in 0..Len(PipeStored)}

InitPipeline ==
    /\ GatewayOff
    /\ fn = "pipeline_append"
    /\ inp \in {[ws |-> w, deal |-> d, has_brochure |-> b] :
                  w \in PipeStores, d \in DealPool, b \in BOOLEAN}
    /\ out = [stage |-> "in"]

PipelineAppend ==
    /\ fn = "pipeline_append" /\ out.stage = "in"
    /\ \E r \in {_do_append(inp.ws, inp.deal, inp.has_brochure, FALSE, "Auto-imported")} :
         out' = [stage |-> "out", ws |-> r.ws, changes_made |-> r.changes_made,
                 dup_row |-> _is_duplicate(inp.ws, inp.deal)]
    /\ UNCHANGED <<fn, inp, gvars>>

\* the deals of a second append_deal call
NextDeals ==
    {Deal("", "Manchester", "M17 1AB", None), Deal("", "", "", None),
     Deal("Orion Works", "Leeds", "", None)}

\* a second append_deal call on the sheet the first one left
PipelineAppendNext ==
    /\ fn = "pipeline_append" /\ out.stage = "out"
    /\ \E d \in NextDeals :
         \E r \in {_do_append(out.ws, d, FALSE, FALSE, "Auto-imported")} :
            out' = [stage |-> "out2", first_ws |-> out.ws, deal |-> d, ws |-> r.ws,
                    changes_made |-> r.changes_made,
                    dup_row |-> _is_duplicate(out.ws, d)]
    /\ UNCHANGED <<fn, inp, gvars>>

NextPipeline == PipelineAppend \/ PipelineAppendNext

SpecPipeline == InitPipeline /\ [][NextPipeline]_vars

\* the columns of the sheet an incoming deal carries a value for
DealCols ==
    {"date", "agent", "asset_name", "country", "town", "address", "classification",
     "area_acres", "area_sqft", "rent_pa", "rent_psf", "asking_price", "net_yield",
     "reversionary_yield", "capval_psf"}

\* the cell a deal would put in column c
DealCell(deal, c) == Pipe_write_deal(EmptyPipeRow, deal, FALSE, FALSE, "")[c]

\* C15: when an incoming deal matches a row of the Intros sheet, every blank
\* cell of that row for which the deal has a value holds the deal's value
\* after _do_append
PipelineMatchGapFilled ==
    (fn = "pipeline_append" /\ out.stage = "out" /\ out.dup_row # 0) =>
        \A c \in DealCols :
            (IsBlank(inp.ws[out.dup_row][c]) /\ Populated(DealCell(inp.deal, c))) =>
                out.ws[out.dup_row][c] = DealCell(inp.deal, c)

-----------------------------------------------------------------------------
\* Derivation after a batch

\* an append_comps call on the investment sheet returned and the sheet is
\* not what it was before the call
InvBatchChangedStore ==
    op = "inv_append" /\ pc = "done" /\ exc = "none" /\ live # before

\* C16: when an append_comps batch has changed the investment sheet (a row
\* inserted or a field merged into a row), the derivation pass has run
\* before the call returns: no rule of clean_investment_comps has anything
\* left to fill
DerivedAfterEveryChange ==
    InvBatchChangedStore => CleanInvSheet(live).cells_filled = 0

-----------------------------------------------------------------------------
\* The cascade of one derivation pass

InvCleanRan == fn = "inv_clean" /\ out.stage \in {"once", "twice"}

\* round(price * 1.068 * yield, 2) for the figures of a row
RentFromYield(r) ==
    RoundDiv(_to_number(r.price).n * ACQUISITION_COST_FACTOR * _to_number(r.yield_niy).n,
             10000000)

\* a scanned row with price and yield and no rent PA
HasPriceAndYield(r) ==
    /\ Truthy(r.address) /\ IsNone(r.rent_pa)
    /\ Truthy(_to_number(r.price)) /\ Truthy(_to_number(r.yield_niy))

\* the row has an area too and neither rent PSF nor cap val PSF
CascadeRow(r) ==
    /\ HasPriceAndYield(r) /\ Truthy(_to_number(r.area_sqft))
    /\ IsNone(r.rent_psf) /\ IsNone(r.capval_psf)

\* what one pass leaves in row `after` of a row `r`: rent PA from price and
\* yield even where rent PSF and area would give it too, and on a cascade
\* row rent PSF from that rent PA, and cap val PSF
CascadeDone(r, after) ==
    /\ HasPriceAndYield(r) => after.rent_pa = Num(RentFromYield(r))
    /\ CascadeRow(r) =>
          /\ after.rent_psf = Num(RoundDiv(RentFromYield(r) * 100, _to_number(r.area_sqft).n))
          /\ after.capval_psf = Num(RoundDiv(_to_number(r.price).n * 100,
                                             _to_number(r.area_sqft).n))

\* the rent PA that rule 2 derives for the row is not 0.00
RentFromYield_ok(r) == HasPriceAndYield(r) => RentFromYield(r) > 0

\* C17 as stated: one pass over any row with price and yield present and rent
\* PA blank leaves rent PA = price * 1.068 * yield (whether or not rent PSF
\* and area are present), and with area present and rent PSF and cap val
\* PSF blank it leaves rent PSF = that rent PA / area and cap val PSF =
\* price / area
SinglePassCascade ==
    InvCleanRan => \A i \in DOMAIN inp : CascadeDone(inp[i], out.first[i])

\* C17 (amended): the same for every row whose rent PA derived from price
\* and yield does not round to 0.00
SinglePassCascadeNonZero ==
    InvCleanRan =>
        \A i \in DOMAIN inp : RentFromYield_ok(inp[i]) => CascadeDone(inp[i], out.first[i])

\* one pass ran the whole cascade on a row that also had a rent PSF-free
\* area, deriving three cells from price, yield and area
CascadeDerivedThree ==
    /\ InvCleanRan /\ out.stage = "once"
    /\ \E i \in DOMAIN inp :
          /\ CascadeRow(inp[i]) /\ RentFromYield(inp[i]) > 0
          /\ out.first[i].rent_pa = Num(RentFromYield(inp[i]))
          /\ Truthy(out.first[i].rent_psf) /\ Truthy(out.first[i].capval_psf)

-----------------------------------------------------------------------------
\* Cells a derivation pass may change

\* C18: a pass of clean_investment_comps changes a cell only if the cell was
\* blank before the pass: a cell holding any value, a zero or a string that
\* is not a number included, holds the same raw value afterwards
DerivationNeverOverwrites ==
    InvCleanRan =>
        \A i \in DOMAIN inp : \A c \in DOMAIN inp[i] :
            Populated(inp[i][c]) => out.first[i][c] = inp[i][c]

-----------------------------------------------------------------------------
(* The batch sweeps: find_occ_dupes.dedup_occupational_comps on the sheet,  *)
(* RawOccCompsDB.run_full_dedup on the table, find_inv_dupes.main           *)

\* re.search(r'(?i)\bw\b', t) for a lowercase word w
HasWord(t, w) ==
    LET lt == Lower(t)
    IN \E i \in 1..(Len(lt) - Len(w) + 1) :
          /\ Mid(lt, i, i + Len(w) - 1) = w
          /\ i = 1 \/ ~IsWordCh(Ch(lt, i - 1))
          /\ i + Len(w) > Len(lt) \/ ~IsWordCh(Ch(lt, i + Len(w)))

\* re.search of a, whitespace (at least `least` characters of it), b in t;
\* with a word boundary before a where bounded
HasPhrase(t, a, least, b, bounded) ==
    LET lt == Lower(t)
    IN \E i \in 1..(Len(lt) - Len(a) + 1) :
          /\ Mid(lt, i, i + Len(a) - 1) = a
          /\ bounded => (i = 1 \/ ~IsWordCh(Ch(lt, i - 1)))
          /\ SpaceRun(lt, i + Len(a)) >= least
          /\ LET e == i + Len(a) + SpaceRun(lt, i + Len(a))
             IN Mid(lt, e, e + Len(b) - 1) = b

\* find_occ_dupes.is_vacant
is_vacant(tenant) == Strip(tenant) # "" /\ HasWord(tenant, "vacant")

\* find_occ_dupes.is_investment_comp
is_investment_comp(notes) ==
    \/ HasPhrase(notes, "investment", 1, "comp", FALSE)
    \/ HasWord(notes, "niy")
    \/ HasWord(notes, "yield")
    \/ HasPhrase(notes, "cap", 0, "val", TRUE)

\* a row as the sweep loads it: from the sheet (rows without a source deal
\* are not loaded, a rent is float(cell) or None) or from the table (every
\* row, the stored keys and the stored rents)
SweepInfo(r, db) ==
    LET tenant_raw == Strip(TextOr(r.tenant_name))
        unit_raw == Strip(TextOr(r.unit_name))
    IN [loaded |-> db \/ ~IsBlank(r.source_deal),
        tenant_raw |-> tenant_raw,
        notes_raw |-> Strip(TextOr(r.notes)),
        tenant_norm |-> IF db THEN (IF r.tenant_name_norm # "" THEN r.tenant_name_norm
                                    ELSE normalise_tenant(tenant_raw))
                        ELSE _normalise_tenant(tenant_raw),
        unit_norm |-> IF db THEN (IF r.unit_name_norm # "" THEN r.unit_name_norm
                                  ELSE normalise_unit(unit_raw))
                      ELSE _normalise_unit(unit_raw),
        rent_pa |-> IF db THEN r.rent_pa ELSE CellRent(r.rent_pa),
        rent_psf |-> IF db THEN r.rent_psf ELSE CellRent(r.rent_psf)]

\* the three removal flags of a loaded row
SweepVacant(a) ==
    is_vacant(a.tenant_raw) \/ (a.tenant_raw = "" /\ HasWord(a.notes_raw, "vacant"))
SweepInvComp(a) == is_investment_comp(a.notes_raw)
SweepNoRent(a) == IsNone(a.rent_pa) /\ IsNone(a.rent_psf)
SweepSkip(a) == SweepVacant(a) \/ SweepInvComp(a) \/ SweepNoRent(a)

\* find_occ_dupes._rents_match
Sweep_rents_match(a, b) ==
    \/ _is_rent_close(a.rent_pa, b.rent_pa)
    \/ /\ IsNone(a.rent_pa) /\ IsNone(b.rent_pa)
       /\ _is_rent_close(a.rent_psf, b.rent_psf)

\* phases 1 to 3 of the pair scan
SweepPairMatch(a, b) ==
    /\ Sweep_rents_match(a, b)
    /\ \/ a.tenant_norm # "" /\ b.tenant_norm # "" /\ a.tenant_norm = b.tenant_norm
       \/ a.unit_norm # "" /\ b.unit_norm # "" /\ a.unit_norm = b.unit_norm
       \/ /\ a.tenant_norm # "" /\ b.tenant_norm # ""
          /\ RatioAtLeast(a.tenant_norm, b.tenant_norm, 90)

\* a scan loop that does not look at the rows already reported as duplicates
RECURSIVE SweepScanFrom_unseen(_, _, _, _, _)
SweepScanFrom_unseen(infos, i, j, seen, acc) ==
    IF i > Len(infos) THEN acc
    ELSE IF ~infos[i].loaded \/ SweepSkip(infos[i]) \/ j > Len(infos)
         THEN SweepScanFrom_unseen(infos, i + 1, i + 2, seen, acc)
    ELSE IF ~infos[j].loaded \/ SweepSkip(infos[j])
         THEN SweepScanFrom_unseen(infos, i, j + 1, seen, acc)
    ELSE IF SweepPairMatch(infos[i], infos[j])
         THEN SweepScanFrom_unseen(infos, i, j + 1, seen \cup {j}, Append(acc, <<i, j>>))
    ELSE SweepScanFrom_unseen(infos, i, j + 1, seen, acc)

\* the scan loop over the loaded rows: a row flagged for removal or already
\* reported as a duplicate is neither a keep row nor a duplicate
RECURSIVE SweepScanFrom(_, _, _, _, _)
SweepScanFrom(infos, i, j, seen, acc) ==
    IF i > Len(infos) THEN acc
    ELSE IF ~infos[i].loaded \/ i \in seen \/ SweepSkip(infos[i]) \/ j > Len(infos)
         THEN SweepScanFrom(infos, i + 1, i + 2, seen, acc)
    ELSE IF ~infos[j].loaded \/ j \in seen \/ SweepSkip(infos[j])
         THEN SweepScanFrom(infos, i, j + 1, seen, acc)
    ELSE IF SweepPairMatch(infos[i], infos[j])
         THEN SweepScanFrom(infos, i, j + 1, seen \cup {j}, Append(acc, <<i, j>>))
    ELSE SweepScanFrom(infos, i, j + 1, seen, acc)

\* the merge of the fix on the sheet: every column of the keep row that is
\* empty takes the duplicate's cell, pair after pair on the open sheet
RECURSIVE SheetMergePairs(_, _, _)
SheetMergePairs(ws, pairs, k) ==
    IF k > Len(pairs) THEN ws
    ELSE LET keep == pairs[k][1]
             dupe == pairs[k][2]
         IN SheetMergePairs(
                [ws EXCEPT ![keep] = [c \in DOMAIN ws[keep] |->
                    IF IsBlank(ws[keep][c]) /\ ~IsBlank(ws[dupe][c]) THEN ws[dupe][c]
                    ELSE ws[keep][c]]],
                pairs, k + 1)

\* run_full_dedup._MERGE_DB_FIELDS
_MERGE_DB_FIELDS ==
    {"tenant_name", "unit_name", "address", "town", "postcode", "size_sqft",
     "rent_pa", "rent_psf", "lease_start", "lease_expiry", "break_date",
     "rent_review_date", "lease_term_years", "comp_date", "notes"}

\* the merge of the fix on the table: one UPDATE per pair, computed from the
\* rows as they were loaded
RECURSIVE DbMergePairs(_, _, _, _, _)
DbMergePairs(rows, db, pairs, k, now) ==
    IF k > Len(pairs) THEN db
    ELSE LET keep == pairs[k][1]
             dupe == pairs[k][2]
             updates == {c \in _MERGE_DB_FIELDS :
                           IsBlank(rows[keep][c]) /\ ~IsBlank(rows[dupe][c])}
         IN DbMergePairs(rows,
                [db EXCEPT ![keep] = [c \in DOMAIN db[keep] |->
                    IF c \in updates THEN rows[dupe][c]
                    ELSE IF c = "updated_at" /\ updates # {} THEN now
                    ELSE db[keep][c]]],
                pairs, k + 1, now)

\* the rows of ws outside `removed`, in order
RECURSIVE Surviving(_, _, _)
Surviving(ws, removed, i) ==
    IF i > Len(ws) THEN <<>>
    ELSE (IF i \in removed THEN <<>> ELSE <<ws[i]>>) \o Surviving(ws, removed, i + 1)

\* the second components of the pairs
DupesOf(pairs) == {pairs[k][2] : k \in DOMAIN pairs}

\* dedup_occupational_comps(path, fix=True) (db = FALSE) and
\* run_full_dedup(fix=True) (db = TRUE): the pairs found, the rows removed,
\* the store after the merge and the store after the deletion
OccSweep(ws, db, now) ==
    LET infos == [i \in DOMAIN ws |-> SweepInfo(ws[i], db)]
        pairs == SweepScanFrom(infos, 1, 2, {}, <<>>)
        removed == DupesOf(pairs) \cup {i \in DOMAIN ws : infos[i].loaded /\ SweepSkip(infos[i])}
        merged == IF db THEN DbMergePairs(ws, ws, pairs, 1, now)
                  ELSE SheetMergePairs(ws, pairs, 1)
    IN [pairs |-> pairs, removed |-> removed, merged |-> merged,
        ws |-> Surviving(merged, removed, 1)]

\* find_inv_dupes.main with --fix: the same on the investment sheet; a scan
\* that raises leaves the file as it was
InvSweep(ws) ==
    LET scan == find_inv_dupes(ws)
        removed == DupesOf(scan.dupes)
        merged == SheetMergePairs(ws, scan.dupes, 1)
    IN IF scan.error THEN [pairs |-> <<>>, removed |-> {}, merged |-> ws, ws |-> ws]
       ELSE [pairs |-> scan.dupes, removed |-> removed, merged |-> merged,
             ws |-> Surviving(merged, removed, 1)]

\* an extracted occupational comp with notes and a source file
SweepComp(tenant_name, unit_name, rent_pa, rent_psf, notes, source_file_path) ==
    [OccComp(Str(tenant_name), Str(unit_name), rent_pa, rent_psf)
        EXCEPT !.notes = notes, !.source_file_path = source_file_path]

\* the records behind the rows a sweep meets
SweepPool ==
    {SweepComp("Acme Ltd", "Unit 1", Num(100000), None, None, None),
     SweepComp("ACME Limited", "", Num(100400), None, Str("Let 2024"), Str("b.pdf")),
     SweepComp("Acme", "Unit 1", Num(100200), None, Str("Ground floor"), None),
     SweepComp("Vacant - 12m rental guarantee", "Unit 2", Num(50000), None, None, None),
     SweepComp("", "Unit 3", None, Num(850), Str("Unit vacant on completion"), None),
     SweepComp("Bolt plc", "Unit 4", Num(500000), None, Str("NIY 6.5%"), None),
     SweepComp("Core Ltd", "Unit 5", None, None, None, None),
     SweepComp("Dune Ltd", "Unit 6", Num(0), None, None, None),
     SweepComp("Echo Ltd", "Unit 7", Num(70000), None, Str("Vacant possession in May"), None)}

MaxSweepRows == 3

\* the clock of the sweep, after every insert
SweepNow == MaxSweepRows + 2

\* the stores a sweep can meet: sheets written by _write_comp, tables
\* written by _insert_new, investment sheets
SweepInputs ==
    {[kind |-> "occ", ws |-> [i \in DOMAIN q |-> Occ_write_comp(EmptyOccRow, q[i], Today)]] :
        q \in SeqsUpTo(SweepPool, MaxSweepRows)}
    \cup {[kind |-> "db", ws |-> [i \in DOMAIN q |-> Stored(q[i], i)]] :
        q \in SeqsUpTo(SweepPool, MaxSweepRows)}
    \cup {[kind |-> "inv", ws |-> q] : q \in SeqsUpTo(InvRowPool, MaxSweepRows)}

\* the sweep of the store of kind k
SweepOf(k, ws) ==
    IF k = "inv" THEN InvSweep(ws) ELSE OccSweep(ws, k = "db", SweepNow)

InitSweep ==
    /\ GatewayOff
    /\ fn = "sweep"
    /\ inp \in SweepInputs
    /\ out = [stage |-> "in"]

\* a dry run that deletes what it reports
DryRunReport_fixes(r, ws) ==
    [stage |-> "dry", fix |-> FALSE, pairs |-> r.pairs, removed |-> r.removed, ws |-> r.ws,
     log |-> {}, backups |-> 0, rows_removed |-> Cardinality(r.removed)]

\* the report of a sweep without fix after the scan r: the pairs and the
\* rows it would remove, the store, the change log and the backups as they
\* were
DryRunReport(r, ws) ==
    [stage |-> "dry", fix |-> FALSE, pairs |-> r.pairs, removed |-> r.removed, ws |-> ws,
     log |-> {}, backups |-> 0, rows_removed |-> 0]

\* fix=False: the report and the return
SweepDryRun(r) == out' = DryRunReport(r, inp.ws)

\* the fix, step 1: the backup of the sheet when there is something to
\* remove, and the merge of every pair into its keep row
SweepMerge(r) ==
    out' = [stage |-> "merged", fix |-> TRUE, pairs |-> r.pairs, removed |-> r.removed,
            ws |-> r.merged, log |-> {},
            backups |-> IF inp.kind = "occ" /\ r.removed # {} THEN 1 ELSE 0,
            rows_removed |-> 0]

\* a sweep is called with or without fix: the scan, then the report of the
\* dry run or the first step of the fix
SweepScan ==
    /\ fn = "sweep" /\ out.stage = "in"
    /\ \E r \in {SweepOf(inp.kind, inp.ws)} : SweepDryRun(r) \/ SweepMerge(r)
    /\ UNCHANGED <<fn, inp, gvars>>

\* the fix, step 2: the rows to remove are deleted, and the table logs a
\* dedup_remove for each
SweepDelete ==
    /\ fn = "sweep" /\ out.stage = "merged"
    /\ out' = [out EXCEPT !.stage = "out", !.ws = Surviving(out.ws, out.removed, 1),
                          !.log = IF inp.kind = "db"
                                  THEN {[action |-> "dedup_remove", id |-> i] : i \in out.removed}
                                  ELSE {},
                          !.rows_removed = Cardinality(out.removed)]
    /\ UNCHANGED <<fn, inp, gvars>>

NextSweep == SweepScan \/ SweepDelete

SpecSweep == InitSweep /\ [][NextSweep]_vars

\* the three removal rules as stated on a stored row
TenantVacant(r) == HasWord(TextOr(r.tenant_name), "vacant")
NotesInvestment(r) == is_investment_comp(TextOr(r.notes))
RentsBlank(r) == IsBlank(r.rent_pa) /\ IsBlank(r.rent_psf)
RemovalRule(r) == TenantVacant(r) \/ NotesInvestment(r) \/ RentsBlank(r)

\* a finished sweep of an occupational store
OccSweepDone == fn = "sweep" /\ inp.kind \in {"occ", "db"} /\ out.stage = "out"

\* after a sweep of an occupational store no surviving row meets a removal
\* rule
NoRuleRowSurvives ==
    OccSweepDone => \A i \in DOMAIN out.ws : ~RemovalRule(out.ws[i])

\* C19: after a full-dedup sweep with fix enabled no surviving row has a
\* tenant matching \bvacant\b, notes with investment-sale vocabulary or both
\* rents blank, and every removed row is a confirmed duplicate or meets one of
\* those three rules
SweepRemovalRules ==
    OccSweepDone =>
        /\ \A i \in DOMAIN out.ws : ~RemovalRule(out.ws[i])
        /\ \A i \in out.removed :
              i \in DupesOf(out.pairs) \/ RemovalRule(inp.ws[i])

\* the data columns of a store of kind k
SweepCols(k) ==
    IF k = "inv" THEN ColSet(InvCols)
    ELSE IF k = "occ" THEN ColSet(OccCols) ELSE ColSet(_RAW_DB_COLS)

\* the rows the sweep removes as duplicates of row keep
PartnersOf(pairs, keep) == {pairs[k][2] : k \in {n \in DOMAIN pairs : pairs[n][1] = keep}}

\* the keep rows of the pairs
KeepsOf(pairs) == {pairs[k][1] : k \in DOMAIN pairs}

\* the position of row i once the rows of `removed` are deleted
NewIndex(i, removed) == i - Cardinality({r \in removed : r < i})

\* row `keep` of the store ws holds, in every column where it was blank and
\* a partner was not, a value one of its partners had there
HoldsPartnerValues(k, ws, keep) ==
    \A c \in SweepCols(k) :
        LET vals == {inp.ws[d][c] : d \in PartnersOf(out.pairs, keep)}
        IN (IsBlank(inp.ws[keep][c]) /\ \E v \in vals : ~IsBlank(v))
              => (ws[c] \in vals /\ ~IsBlank(ws[c]))

\* C20: in a sweep with fix enabled the duplicates are merged into their keep
\* rows while every row is still there, and after the deletion each surviving
\* keep row holds, in every field where it was blank, a non-blank value of its
\* removed partners
SweepMergesBeforeDeleting ==
    /\ (fn = "sweep" /\ out.stage = "merged") =>
          /\ Len(out.ws) = Len(inp.ws)
          /\ \A keep \in KeepsOf(out.pairs) :
                HoldsPartnerValues(inp.kind, out.ws[keep], keep)
    /\ (fn = "sweep" /\ out.stage = "out") =>
          \A keep \in KeepsOf(out.pairs) :
             /\ keep \notin out.removed
             /\ HoldsPartnerValues(inp.kind, out.ws[NewIndex(keep, out.removed)], keep)

\* C21: a sweep run without fix leaves the store, the change log and the
\* backups as they were and reports rows_removed = 0, whatever the store
\* holds
DryRunReadOnly ==
    (fn = "sweep" /\ out.stage # "in" /\ ~out.fix) =>
        /\ out.stage = "dry"
        /\ out.ws = inp.ws
        /\ out.log = {} /\ out.backups = 0
        /\ out.rows_removed = 0

\* a dry run that found duplicate pairs and rows to remove
DryRunFoundRows ==
    /\ fn = "sweep" /\ out.stage = "dry" /\ ~out.fix
    /\ out.removed # {} /\ out.pairs # <<>>

-----------------------------------------------------------------------------
\* Records without identity fields

\* the deal of the last append_deal call and the sheet it met
LastDeal == IF out.stage = "out2" THEN out.deal ELSE inp.deal
SheetBefore == IF out.stage = "out2" THEN out.first_ws ELSE inp.ws

\* the sheet holds every row it held, and one more row with the deal's values
AppendedAsNewRow(ws_before, ws_after, deal) ==
    /\ Len(ws_after) = Len(ws_before) + 1
    /\ \A i \in 1..Len(ws_before) : ws_after[i] = ws_before[i]
    /\ \A c \in DealCols : ws_after[Len(ws_after)][c] = DealCell(deal, c)

\* an append_deal call with a deal that has no name returned
EmptyNameAppended ==
    /\ fn = "pipeline_append" /\ out.stage \in {"out", "out2"}
    /\ Strip(TextOr(LastDeal.asset_name)) = ""

\* C22: a deal with an empty name skips matching and is appended as a new
\* row, whatever its postcode, and is_deal_match reports no match when either
\* name normalizes to empty
EmptyNameAlwaysInserted ==
    /\ EmptyNameAppended =>
          /\ out.dup_row = 0 /\ out.changes_made
          /\ AppendedAsNewRow(SheetBefore, out.ws, LastDeal)
    /\ (fn = "pipeline_append" /\ out.stage \in {"out", "out2"}) =>
          \A i \in DOMAIN SheetBefore, postcode_b \in {"", "M17 1AB"} :
             (_normalize_name(TextOr(LastDeal.asset_name)) = ""
                \/ _normalize_name(TextOr(SheetBefore[i].asset_name)) = "")
                => ~is_deal_match(TextOr(LastDeal.asset_name), TextOr(LastDeal.town),
                                  TextOr(LastDeal.postcode),
                                  TextOr(SheetBefore[i].asset_name),
                                  TextOr(SheetBefore[i].town), postcode_b)

-----------------------------------------------------------------------------
\* The read-modify-write window

\* _retry_write has just returned True and nothing has touched the file since
JustSwapped == pc = "verify" /\ rw = "true" /\ vlog = <<>> /\ restores = 0

\* C23: the copy of _retry_write puts the workbook it opened and changed over
\* the live path whatever the file holds by then: a row another writer added
\* after the open and before the copy is not in the store afterwards
ExternalWriteLost ==
    JustSwapped =>
        /\ live = workbook.ws
        /\ (extw > 0 /\ ~HasRow(workbook.ws, ExternalRow)) => ~HasRow(live, ExternalRow)

\* a write whose window another writer's row fell into, after its copy
ExternalWriteOverwritten ==
    JustSwapped /\ extw > 0 /\ ~HasRow(workbook.ws, ExternalRow) /\ ~HasRow(live, ExternalRow)

-----------------------------------------------------------------------------
\* Failures of one record

\* the row loop of clean_occupational_comps has ended
OccBatchDone == fn = "occ_batch" /\ out.stage = "out"

\* C24: a failure while deriving one record does not leave the core and does
\* not stop the records after it: the loop ends without an exception and has
\* handled every row of the batch
RecordFailureContained ==
    OccBatchDone =>
        /\ out.exc = "none"
        /\ out.reached = Len(inp)
        /\ \A i \in DOMAIN inp :
              ~OccRule7(_clean_row(inp[i])).raised
                 => out.rows[i] = OccRule7(_clean_row(inp[i])).row

-----------------------------------------------------------------------------
(* Postcode normalisation: email_archiver._normalise_postcode and             *)
(* occ_comps_cleaner._normalise_postcode                                      *)

\* t[:-k] + " " + t[-k:]
SpaceBeforeLast(t, k) == Mid(t, 1, Len(t) - k) \o " " \o Mid(t, Len(t) - k + 1, Len(t))

\* a normaliser that puts the space before the last two characters
Arch_normalise_postcode_last2(postcode) ==
    LET found == RemoveChars(PostcodeFrom(Upper(Strip(postcode)), 1), {" "})
    IN IF found = "" THEN "" ELSE SpaceBeforeLast(found, 2)

\* email_archiver._normalise_postcode: the first postcode found in the
\* upper-cased text, with one space before its last three characters; ""
\* where there is none
Arch_normalise_postcode(postcode) ==
    LET cleaned == Upper(Strip(postcode))
        found == RemoveChars(PostcodeFrom(cleaned, 1), {" "})
    IN IF postcode = "" \/ PostcodeFrom(cleaned, 1) = "" THEN ""
       ELSE IF Len(found) >= 4 THEN SpaceBeforeLast(found, 3)
       ELSE found

\* occ_comps_cleaner._normalise_postcode: the upper-cased text without its
\* whitespace, with one space before its last three characters, where it
\* begins with a postcode; the stripped upper-cased text otherwise
Clean_normalise_postcode(raw) ==
    LET cleaned == RemoveChars(Upper(Strip(raw)), {" "})
    IN IF PostcodeAt(cleaned, 1) = 0 THEN Upper(Strip(raw))
       ELSE IF Len(cleaned) > 3 THEN SpaceBeforeLast(cleaned, 3)
       ELSE cleaned

\* texts handed to the normalisers: postcodes in every spacing and casing,
\* inside other text, cut short, and texts without a postcode
PostcodeTexts ==
    {a \o b \o c \o d \o e :
        a \in {"", " ", "Unit 5, ", "x"},
        b \in {"m17", "M1", "dy4", "AB12", "A1B", "12", ""},
        c \in {"", " ", "  "},
        d \in {"1AB", "0py", "", "1A", "AB1"},
        e \in {"", " ", "XYZ"}}

InitPostcode ==
    /\ GatewayOff
    /\ fn \in {"arch_postcode", "clean_postcode"}
    /\ inp \in PostcodeTexts
    /\ out = [stage |-> "in"]

\* the normaliser named by fn
NormaliseBy(f, t) ==
    IF f = "arch_postcode" THEN Arch_normalise_postcode(t) ELSE Clean_normalise_postcode(t)

\* _normalise_postcode(x)
NormaliseOnce ==
    /\ fn \in {"arch_postcode", "clean_postcode"} /\ out.stage = "in"
    /\ out' = [stage |-> "once", first |-> NormaliseBy(fn, inp)]
    /\ UNCHANGED <<fn, inp, gvars>>

\* _normalise_postcode(_normalise_postcode(x))
NormaliseTwice ==
    /\ fn \in {"arch_postcode", "clean_postcode"} /\ out.stage = "once"
    /\ out' = [stage |-> "twice", first |-> out.first, second |-> NormaliseBy(fn, out.first)]
    /\ UNCHANGED <<fn, inp, gvars>>

NextPostcode == NormaliseOnce \/ NormaliseTwice

SpecPostcode == InitPostcode /\ [][NextPostcode]_vars

\* the text holds a postcode somewhere, in any casing
HoldsPostcode(t) == PostcodeFrom(Upper(t), 1) # ""

BeginsWithPostcode(t) == PostcodeAt(RemoveChars(Upper(Strip(t)), {" "}), 1) > 0

-----------------------------------------------------------------------------
\* Several duplicates of one keep row

\* the pairs of row keep, in the order the scan found them, whose duplicate
\* has a value in column c
PairsWithValue(keep, c) ==
    {k \in DOMAIN out.pairs : out.pairs[k][1] = keep /\ ~IsBlank(inp.ws[out.pairs[k][2]][c])}

\* the columns the sweep of a store of kind k merges
MergedCols(k) == IF k = "db" THEN _MERGE_DB_FIELDS ELSE SweepCols(k)

\* a finished sweep in which a keep row was blank in a column where two of
\* its duplicates were not
TwoDuplicatesWithValue(k) ==
    /\ fn = "sweep" /\ inp.kind = k /\ out.stage = "out"
    /\ \E keep \in KeepsOf(out.pairs), c \in MergedCols(k) :
          IsBlank(inp.ws[keep][c]) /\ Cardinality(PairsWithValue(keep, c)) >= 2

\* C26: when two or more duplicates of a keep row have a value for a field
\* that is blank in the keep row, the keep row holds the value of the first of
\* them after the sweep of the table, as after the sweep of the sheet
FirstDuplicateValueKept ==
    (fn = "sweep" /\ inp.kind \in {"occ", "db"} /\ out.stage = "out") =>
        \A keep \in KeepsOf(out.pairs), c \in MergedCols(inp.kind) :
            (IsBlank(inp.ws[keep][c]) /\ Cardinality(PairsWithValue(keep, c)) >= 2) =>
                out.ws[NewIndex(keep, out.removed)][c]
                    = inp.ws[out.pairs[FirstOf(PairsWithValue(keep, c))][2]][c]

-----------------------------------------------------------------------------
\* The normalised keys of the table

\* both normalised keys of a table row agree with its names
KeysAgree(r) ==
    /\ r.tenant_name_norm = normalise_tenant(TextOr(r.tenant_name))
    /\ r.unit_name_norm = normalise_unit(TextOr(r.unit_name))

\* C29 as stated: every row of the table has tenant_name_norm =
\* normalise_tenant(tenant_name) and unit_name_norm =
\* normalise_unit(unit_name), as inserted and after run_full_dedup(fix=True)
\* has merged and deleted
NormKeysConsistent ==
    fn = "sweep" /\ inp.kind = "db" =>
        /\ \A i \in DOMAIN inp.ws : KeysAgree(inp.ws[i])
        /\ out.stage = "out" => \A i \in DOMAIN out.ws : KeysAgree(out.ws[i])

\* the rows as insert_comp stored them have consistent keys
InsertedKeysConsistent ==
    fn = "sweep" /\ inp.kind = "db" => \A i \in DOMAIN inp.ws : KeysAgree(inp.ws[i])

-----------------------------------------------------------------------------
\* Keep rows and removed rows of a sweep

\* the pairs of a sweep that report row d as the duplicate
PairsRemoving(d) == {k \in DOMAIN out.pairs : out.pairs[k][2] = d}

\* C30: in every sweep, of a sheet or of the table, with or without fix,
\* each row removed as a duplicate has exactly one keep row, the keep row
\* comes before it in the store, and the keep row is not among the removed
\* rows (neither a duplicate of another row nor flagged vacant,
\* investment comp or no rent)
KeepPartnersSurvive ==
    fn = "sweep" /\ out.stage # "in" =>
        \A d \in DupesOf(out.pairs) :
            /\ Cardinality(PairsRemoving(d)) = 1
            /\ \A k \in PairsRemoving(d) :
                 /\ out.pairs[k][1] < d
                 /\ out.pairs[k][1] \notin out.removed

\* a sweep of the table that has removed two duplicates
SweepRemovedSeveral ==
    /\ fn = "sweep" /\ inp.kind = "db" /\ out.stage = "out"
    /\ Len(out.pairs) = 2

=============================================================================
